---- MODULE Spec2Model ----
(***************************************************************************)
(* Model of the OpenChemFacts frontend plot engine:                        *)
(*   - the render effects of BenchmarkComparison and PlotViewer, which     *)
(*     reconcile a fetched chart description with presentation defaults    *)
(*     and hand it to the rendering engine (RenderSpec);                   *)
(*   - createEC10eqPlotFromData, which builds a chart description from an  *)
(*     EC10eq dataset (BuilderSpec, and StyleSpec over wider series);      *)
(*   - isEC10eqData (ClassifySpec) and the life of a chart component:      *)
(*     queries, prop changes, refetches and unmounting (LifeSpec);         *)
(*   - the substance selection of BenchmarkComparison (SelectSpec),        *)
(*     apiFetch (ApiSpec) and the name shown by ChemicalInfo (InfoSpec).   *)
(***************************************************************************)
EXTENDS Integers, Sequences, FiniteSets, TLC

VARIABLES
    component,        \* which chart component is mounted
    source,           \* the chart description the server answers with
    queryStatus,      \* useQuery: "loading" | "success" | "error"
    plotData,         \* useQuery data (Undefined until the query succeeds)
    windowPlotly,     \* window.Plotly is defined (the CDN script has run)
    plotlyLoaded,     \* BenchmarkComparison's plotlyLoaded state
    effectPending,    \* the render effect's deps changed in the last commit
    chart,            \* what the rendering engine holds for the surface
    rendererCalls,    \* calls made on the rendering engine, in order
    resizeListeners,  \* number of window resize listeners registered
    effectCleanup,    \* the render effect returned a cleanup function
    consoleErrors,    \* number of console.error calls of the render effect
    ec10eqData,       \* argument of createEC10eqPlotFromData
    colorBy,          \* argument of createEC10eqPlotFromData
    plotResult,       \* its return value (NoResult before the call)
    payload,          \* argument of isEC10eqData
    accepted,         \* its result ("unknown" before the call)
    mounted,          \* the chart component is mounted
    selectedCas,      \* BenchmarkComparison's selectedCas / PlotViewer's cas
    queries,          \* the query cache: query key -> query state
    fetchCount,       \* number of retrievals started so far
    detachedHandles,  \* unpurged charts on surfaces plotRef no longer holds
    effectCalls,      \* what the latest run of the render effect called
    renderedCas,      \* selectedCas as the handlers of the last render see it
    comparisonEnabled,\* the enabled option of the comparison query
    normalizedCas,    \* ChemicalInfo: the (normalized) cas prop
    propChemicalName, \* ChemicalInfo: the chemical_name prop
    chemicalName,     \* ChemicalInfo: the chemicalName state
    casInfoQueries,   \* ChemicalInfo: the cas-info query cache, cas -> query
    casListQuery,     \* ChemicalInfo: what useCasList returns
    nameEffectPending,\* ChemicalInfo: the name effect's deps changed
    fetchOutcome,     \* apiFetch: what fetch and the response body do
    apiResult         \* apiFetch: how the returned promise settles

renderVars == <<component, source, queryStatus, plotData, windowPlotly,
                plotlyLoaded, effectPending, chart, rendererCalls,
                resizeListeners, effectCleanup, consoleErrors>>
builderVars == <<ec10eqData, colorBy, plotResult>>
classifyVars == <<payload, accepted>>
lifeVars == <<mounted, selectedCas, queries, fetchCount, detachedHandles,
              effectCalls>>
selectVars == <<renderedCas, comparisonEnabled>>
infoVars == <<normalizedCas, propChemicalName, chemicalName, casInfoQueries,
              casListQuery, nameEffectPending>>
apiVars == <<fetchOutcome, apiResult>>
uiVars == <<selectVars, infoVars, apiVars>>
vars == <<component, source, queryStatus, plotData, windowPlotly,
          plotlyLoaded, effectPending, chart, rendererCalls,
          resizeListeners, effectCleanup, consoleErrors,
          ec10eqData, colorBy, plotResult, payload, accepted,
          mounted, selectedCas, queries, fetchCount, detachedHandles,
          effectCalls, renderedCas, comparisonEnabled, normalizedCas,
          propChemicalName, chemicalName, casInfoQueries, casListQuery,
          nameEffectPending, fetchOutcome, apiResult>>

(***************************************************************************)
(* JSON / JavaScript values.  A value is undefined, null, a scalar (a      *)
(* boolean, number or string, written as its JSON text), an object (a      *)
(* function from keys to values) or an array.                              *)
(***************************************************************************)
Undefined == [kind |-> "undefined"]
Null == [kind |-> "null"]
Scalar(s) == [kind |-> "scalar", v |-> s]
Obj(f) == [kind |-> "object", fields |-> f]
Arr(s) == [kind |-> "array", items |-> s]
True == Scalar("true")
False == Scalar("false")
EmptyFields == [k \in {} |-> Undefined]

\* o.k on an object's fields: undefined for a missing key
Get(f, k) == IF k \in DOMAIN f THEN f[k] ELSE Undefined

\* {...v}: the own fields of an object; nothing for undefined, null, a
\* boolean or a number
Spread(v) == IF v.kind = "object" THEN v.fields ELSE EmptyFields

\* v?.k and v.k on a truthy v
Prop(v, k) == Get(Spread(v), k)

\* a ?? b
Coalesce(a, b) == IF a = Undefined \/ a = Null THEN b ELSE a

\* JavaScript truthiness
Truthy(v) ==
    /\ v # Undefined
    /\ v # Null
    /\ v \notin {Scalar("false"), Scalar("0"), Scalar("")}

\* v !== false
NotFalse(v) == IF v = False THEN False ELSE True

\* { ...a, ...b }: later keys win
Merge(a, b) ==
    [k \in DOMAIN a \cup DOMAIN b |-> IF k \in DOMAIN b THEN b[k] ELSE a[k]]

(***************************************************************************)
(* Layout reconciliation of the two chart components.                      *)
(***************************************************************************)

\* /^(x|y)axis\d+$/ over the layout keys the model uses
IsSecondaryAxisKey(key) == key \in {"xaxis2", "xaxis3", "yaxis2", "yaxis3"}

\* the default margin, font and legend-font blocks of both components
DefaultMargin ==
    [l |-> Scalar("80"), r |-> Scalar("120"), t |-> Scalar("100"),
     b |-> Scalar("120"), pad |-> Scalar("10")]
DefaultFont == [size |-> Scalar("12")]
DefaultLegendFont == [size |-> Scalar("11")]
DefaultLegend ==
    [orientation |-> Scalar("v"), x |-> Scalar("1.02"), y |-> Scalar("1"),
     xanchor |-> Scalar("left"), yanchor |-> Scalar("top"),
     visible |-> True, font |-> Obj(DefaultLegendFont)]
DefaultConfig ==
    [responsive |-> True, displayModeBar |-> True, displaylogo |-> False,
     modeBarButtonsToRemove |-> Arr(<<Scalar("lasso2d"), Scalar("select2d")>>)]

\* an axis entry whose automargin is always true, whatever the source says
AxisAutomarginForced(axis) ==
    Obj(Merge(Spread(axis), [automargin |-> True]))

\* { ...axis, automargin: axis?.automargin ?? true }
AxisWithAutomargin(axis) ==
    Obj(Merge(Spread(axis),
              [automargin |-> Coalesce(Prop(axis, "automargin"), True)]))

\* BenchmarkComparison: secondaryAxes
secondaryAxes(layout) ==
    [key \in {k \in DOMAIN Spread(layout) : IsSecondaryAxisKey(k)} |->
        AxisWithAutomargin(Spread(layout)[key])]

\* a legend entry whose font is the source's font block when there is one
\* and the default block otherwise
BCLegendFontAsBlock(legend) ==
    IF Truthy(legend)
    THEN Obj(Merge(Spread(legend),
           [orientation |-> Coalesce(Prop(legend, "orientation"), Scalar("v")),
            x |-> Coalesce(Prop(legend, "x"), Scalar("1.02")),
            y |-> Coalesce(Prop(legend, "y"), Scalar("1")),
            xanchor |-> Coalesce(Prop(legend, "xanchor"), Scalar("left")),
            yanchor |-> Coalesce(Prop(legend, "yanchor"), Scalar("top")),
            visible |-> NotFalse(Prop(legend, "visible")),
            font |-> Coalesce(Prop(legend, "font"),
                              Obj(DefaultLegendFont))]))
    ELSE Obj(DefaultLegend)

\* BenchmarkComparison: the legend entry of enhancedLayout
BCLegend(legend) ==
    IF Truthy(legend)
    THEN Obj(Merge(Spread(legend),
           [orientation |-> Coalesce(Prop(legend, "orientation"), Scalar("v")),
            x |-> Coalesce(Prop(legend, "x"), Scalar("1.02")),
            y |-> Coalesce(Prop(legend, "y"), Scalar("1")),
            xanchor |-> Coalesce(Prop(legend, "xanchor"), Scalar("left")),
            yanchor |-> Coalesce(Prop(legend, "yanchor"), Scalar("top")),
            visible |-> NotFalse(Prop(legend, "visible")),
            font |-> Obj(Merge(DefaultLegendFont,
                               Spread(Prop(legend, "font"))))]))
    ELSE Obj(DefaultLegend)

\* a reconciler that lets the default blocks win over the source's margin
\* and font (defaults spread after the source)
BCEnhancedLayoutDefaultsWin(layout) ==
    Obj(Merge(Merge(Merge(Spread(layout),
        [autosize |-> Coalesce(Prop(layout, "autosize"), True),
         showlegend |-> NotFalse(Prop(layout, "showlegend")),
         margin |-> Obj(Merge(Spread(Prop(layout, "margin")), DefaultMargin)),
         font |-> Obj(Merge(Spread(Prop(layout, "font")), DefaultFont)),
         xaxis |-> AxisWithAutomargin(Prop(layout, "xaxis")),
         yaxis |-> AxisWithAutomargin(Prop(layout, "yaxis"))]),
        secondaryAxes(layout)),
        [legend |-> BCLegend(Prop(layout, "legend"))]))

\* a reconciler that takes the source's margin and font as whole blocks
\* and falls back to the default block only when the source has none
BCEnhancedLayoutBlockMerge(layout) ==
    Obj(Merge(Merge(Merge(Spread(layout),
        [autosize |-> Coalesce(Prop(layout, "autosize"), True),
         showlegend |-> NotFalse(Prop(layout, "showlegend")),
         margin |-> Coalesce(Prop(layout, "margin"), Obj(DefaultMargin)),
         font |-> Coalesce(Prop(layout, "font"), Obj(DefaultFont)),
         xaxis |-> AxisWithAutomargin(Prop(layout, "xaxis")),
         yaxis |-> AxisWithAutomargin(Prop(layout, "yaxis"))]),
        secondaryAxes(layout)),
        [legend |-> BCLegend(Prop(layout, "legend"))]))

\* BenchmarkComparison: enhancedLayout
BCEnhancedLayout(layout) ==
    Obj(Merge(Merge(Merge(Spread(layout),
        [autosize |-> Coalesce(Prop(layout, "autosize"), True),
         showlegend |-> NotFalse(Prop(layout, "showlegend")),
         margin |-> Obj(Merge(DefaultMargin, Spread(Prop(layout, "margin")))),
         font |-> Obj(Merge(DefaultFont, Spread(Prop(layout, "font")))),
         xaxis |-> AxisWithAutomargin(Prop(layout, "xaxis")),
         yaxis |-> AxisWithAutomargin(Prop(layout, "yaxis"))]),
        secondaryAxes(layout)),
        [legend |-> BCLegend(Prop(layout, "legend"))]))

\* allTraces with the branches of the Array.isArray test swapped
allTracesSwapped(data) == IF data.kind = "array" THEN Arr(<<>>) ELSE data

\* BenchmarkComparison: allTraces
allTraces(data) == IF data.kind = "array" THEN data ELSE Arr(<<>>)

\* a config merge that spreads the defaults after the source config
plotConfigDefaultsWin(config) ==
    Obj(Merge(Spread(IF Truthy(config) THEN config ELSE Obj(EmptyFields)),
              DefaultConfig))

\* both components: { ...defaults, ...(config || {}) }
plotConfig(config) ==
    Obj(Merge(DefaultConfig,
              Spread(IF Truthy(config) THEN config ELSE Obj(EmptyFields))))

\* PlotViewer: enhancedLayout
PVEnhancedLayout(layout) ==
    Obj(Merge(Spread(layout),
        [autosize |-> True,
         margin |-> Obj(DefaultMargin),
         font |-> Obj(DefaultFont),
         xaxis |-> Obj(Merge(Spread(Prop(layout, "xaxis")),
                             [automargin |-> True])),
         yaxis |-> Obj(Merge(Spread(Prop(layout, "yaxis")),
                             [automargin |-> True])),
         legend |-> Obj(Merge(Spread(Prop(layout, "legend")),
                        [orientation |-> Scalar("v"), x |-> Scalar("1.02"),
                         y |-> Scalar("1"), xanchor |-> Scalar("left"),
                         yanchor |-> Scalar("top"),
                         font |-> Obj(DefaultLegendFont)]))]))

\* if (plotData.data && plotData.layout)
ValidDescription(desc) ==
    Truthy(Prop(desc, "data")) /\ Truthy(Prop(desc, "layout"))

(***************************************************************************)
(* The chart descriptions a server may answer with: a series list (or      *)
(* none) and a layout and config built by setting up to MaxSourceKeys      *)
(* keys.                                                                   *)
(***************************************************************************)
MaxSourceKeys == 2

\* v with the value at path replaced (objects created on the way)
RECURSIVE SetPath(_, _, _)
SetPath(v, path, val) ==
    IF path = <<>> THEN val
    ELSE Obj([k \in DOMAIN Spread(v) \cup {Head(path)} |->
                IF k = Head(path)
                THEN SetPath(Prop(v, k), Tail(path), val)
                ELSE Spread(v)[k]])

SourceAssignments ==
    { <<<<"layout", "autosize">>, False>>,
      <<<<"layout", "autosize">>, Null>>,
      <<<<"layout", "showlegend">>, False>>,
      <<<<"layout", "showlegend">>, Null>>,
      <<<<"layout", "title">>, Scalar("SSD")>>,
      <<<<"layout", "margin">>, Null>>,
      <<<<"layout", "margin", "l">>, Scalar("10")>>,
      <<<<"layout", "margin", "pad">>, Null>>,
      <<<<"layout", "font", "size">>, Scalar("20")>>,
      <<<<"layout", "font", "family">>, Scalar("Arial")>>,
      <<<<"layout", "xaxis", "automargin">>, False>>,
      <<<<"layout", "xaxis", "automargin">>, Null>>,
      <<<<"layout", "xaxis", "title">>, Scalar("Concentration")>>,
      <<<<"layout", "yaxis", "automargin">>, False>>,
      <<<<"layout", "yaxis", "type">>, Scalar("log")>>,
      <<<<"layout", "xaxis3", "title">>, Scalar("X3")>>,
      <<<<"layout", "yaxis2", "automargin">>, False>>,
      <<<<"layout", "legend">>, Obj(EmptyFields)>>,
      <<<<"layout", "legend", "orientation">>, Scalar("h")>>,
      <<<<"layout", "legend", "x">>, Scalar("0")>>,
      <<<<"layout", "legend", "yanchor">>, Null>>,
      <<<<"layout", "legend", "visible">>, False>>,
      <<<<"layout", "legend", "bgcolor">>, Scalar("white")>>,
      <<<<"layout", "legend", "font", "size">>, Scalar("9")>>,
      <<<<"layout", "legend", "font", "size">>, Null>>,
      <<<<"layout", "legend", "font", "color">>, Scalar("red")>>,
      <<<<"config", "responsive">>, False>>,
      <<<<"config", "scrollZoom">>, True>>,
      <<<<"config">>, Null>>,
      <<<<"data">>, Arr(<<>>)>>,
      <<<<"data">>, Scalar("text")>> }

SourceTraces == Arr(<<Scalar("trace1"), Scalar("trace2")>>)

\* a description that gives every field the reconciler has a default for
FullLayout ==
    Obj([autosize |-> False, showlegend |-> False,
         margin |-> Obj([l |-> Scalar("10"), r |-> Scalar("20"),
                         t |-> Scalar("30"), b |-> Scalar("40"),
                         pad |-> Scalar("0")]),
         font |-> Obj([size |-> Scalar("20")]),
         xaxis |-> Obj([automargin |-> False]),
         yaxis |-> Obj([automargin |-> True]),
         yaxis2 |-> Obj([automargin |-> False]),
         legend |-> Obj([orientation |-> Scalar("h"), x |-> Scalar("0"),
                         y |-> Scalar("0"), xanchor |-> Scalar("right"),
                         yanchor |-> Scalar("bottom"), visible |-> False,
                         font |-> Obj([size |-> Scalar("9")])])])

FullConfig ==
    Obj([responsive |-> False, displayModeBar |-> False,
         displaylogo |-> True, modeBarButtonsToRemove |-> Arr(<<>>)])

BaseDescriptions ==
    { Obj(EmptyFields),
      Obj([data |-> SourceTraces]),
      Obj([layout |-> Obj(EmptyFields)]),
      Obj([data |-> SourceTraces, layout |-> Obj(EmptyFields)]),
      Obj([data |-> SourceTraces, layout |-> FullLayout,
           config |-> FullConfig]) }

RECURSIVE DescriptionsWith(_)
DescriptionsWith(n) ==
    IF n = 0 THEN BaseDescriptions
    ELSE LET prev == DescriptionsWith(n - 1)
         IN  prev \cup { SetPath(d, a[1], a[2]) :
                            d \in prev, a \in SourceAssignments }

SourceDescriptions == DescriptionsWith(MaxSourceKeys)

(***************************************************************************)
(* The chart components.                                                   *)
(***************************************************************************)
Components == {"BenchmarkComparison", "PlotViewer"}
NoChart == [kind |-> "none"]
NoResult == [kind |-> "none"]

\* the selection inputs, the ChemicalInfo card and apiFetch before use
SelectIdle == renderedCas = <<>> /\ comparisonEnabled = FALSE
InfoIdle ==
    /\ normalizedCas = ""
    /\ propChemicalName = Undefined
    /\ chemicalName = Undefined
    /\ casInfoQueries = <<>>
    /\ casListQuery = [isLoading |-> TRUE, casList |-> {}]
    /\ nameEffectPending = FALSE
ApiIdle == fetchOutcome = NoResult /\ apiResult = NoResult

\* what the component's JSX returns for the plot area
View ==
    CASE queryStatus = "loading" -> "skeleton"
      [] queryStatus = "error" -> "error"
      [] OTHER -> "plot"

\* plotRef.current is the plot <div>, mounted only in the plot view
plotRefMounted == View = "plot"

\* the arguments of Plotly.newPlot(plotRef.current, ...)
NewPlotArgs(desc) ==
    IF component = "BenchmarkComparison"
    THEN [kind |-> "chart",
          data |-> allTraces(Prop(desc, "data")),
          layout |-> BCEnhancedLayout(Prop(desc, "layout")),
          config |-> plotConfig(Prop(desc, "config"))]
    ELSE [kind |-> "chart",
          data |-> Prop(desc, "data"),
          layout |-> PVEnhancedLayout(Prop(desc, "layout")),
          config |-> plotConfig(Prop(desc, "config"))]

RenderInit ==
    /\ component \in Components
    /\ source \in SourceDescriptions
    /\ queryStatus = "loading"
    /\ plotData = Undefined
    /\ windowPlotly \in BOOLEAN
    /\ plotlyLoaded = (component = "BenchmarkComparison" /\ windowPlotly)
    /\ effectPending = FALSE
    /\ chart = NoChart
    /\ rendererCalls = <<>>
    /\ resizeListeners = 0
    /\ effectCleanup = FALSE
    /\ consoleErrors = 0
    /\ ec10eqData = NoResult
    /\ colorBy = "trophic_group"
    /\ plotResult = NoResult
    /\ payload = Undefined
    /\ accepted = "unknown"
    /\ mounted = TRUE
    /\ selectedCas = <<>>
    /\ queries = <<>>
    /\ fetchCount = 0
    /\ detachedHandles = 0
    /\ effectCalls = <<>>
    /\ SelectIdle /\ InfoIdle /\ ApiIdle

\* useQuery resolves with the server's JSON
QuerySucceeds ==
    /\ queryStatus = "loading"
    /\ queryStatus' = "success"
    /\ plotData' = source
    /\ effectPending' = TRUE
    /\ UNCHANGED <<component, source, windowPlotly, plotlyLoaded, chart,
                   rendererCalls, resizeListeners, effectCleanup,
                   consoleErrors>>
    /\ UNCHANGED builderVars
    /\ UNCHANGED classifyVars
    /\ UNCHANGED uiVars
    /\ UNCHANGED lifeVars

\* useQuery rejects
QueryFails ==
    /\ queryStatus = "loading"
    /\ queryStatus' = "error"
    /\ UNCHANGED <<component, source, plotData, windowPlotly, plotlyLoaded,
                   effectPending, chart, rendererCalls, resizeListeners,
                   effectCleanup, consoleErrors>>
    /\ UNCHANGED builderVars
    /\ UNCHANGED classifyVars
    /\ UNCHANGED uiVars
    /\ UNCHANGED lifeVars

\* the CDN script has run; BenchmarkComparison's onload sets plotlyLoaded,
\* PlotViewer registers no onload handler
PlotlyScriptLoaded ==
    /\ ~windowPlotly
    /\ windowPlotly' = TRUE
    /\ IF component = "BenchmarkComparison"
       THEN plotlyLoaded' = TRUE /\ effectPending' = TRUE
       ELSE UNCHANGED <<plotlyLoaded, effectPending>>
    /\ UNCHANGED <<component, source, queryStatus, plotData, chart,
                   rendererCalls, resizeListeners, effectCleanup,
                   consoleErrors>>
    /\ UNCHANGED builderVars
    /\ UNCHANGED classifyVars
    /\ UNCHANGED uiVars
    /\ UNCHANGED lifeVars

\* the render effect's guard
EffectGuard ==
    /\ Truthy(plotData)
    /\ plotRefMounted
    /\ windowPlotly
    /\ component = "BenchmarkComparison" => plotlyLoaded

\* the cleanup returned by the previous run of the render effect
CleanupCalls ==
    IF effectCleanup /\ component = "BenchmarkComparison"
          /\ plotRefMounted /\ windowPlotly
    THEN <<"purge">> ELSE <<>>

\* the calls of the effect body on a valid description
BodyCalls ==
    IF component = "BenchmarkComparison"
    THEN <<"purge", "newPlot">> ELSE <<"newPlot">>

\* the render effect (deps [plotData, plotlyLoaded] or [data]) after a commit
\* in which a dependency changed: previous cleanup, then the body
RenderEffect ==
    /\ effectPending
    /\ effectPending' = FALSE
    /\ LET listenersLeft ==
               IF effectCleanup THEN resizeListeners - 1 ELSE resizeListeners
       IN
       IF EffectGuard /\ ValidDescription(plotData)
       THEN /\ rendererCalls' = rendererCalls \o CleanupCalls \o BodyCalls
            /\ chart' = NewPlotArgs(plotData)
            /\ resizeListeners' = listenersLeft + 1
            /\ effectCleanup' = TRUE
            /\ UNCHANGED consoleErrors
       ELSE /\ rendererCalls' = rendererCalls \o CleanupCalls
            /\ chart' = IF CleanupCalls # <<>> THEN NoChart ELSE chart
            /\ resizeListeners' = listenersLeft
            /\ effectCleanup' = FALSE
            /\ consoleErrors' =
                  IF EffectGuard THEN consoleErrors + 1 ELSE consoleErrors
    /\ UNCHANGED <<component, source, queryStatus, plotData, windowPlotly,
                   plotlyLoaded>>
    /\ UNCHANGED builderVars
    /\ UNCHANGED classifyVars
    /\ UNCHANGED uiVars
    /\ UNCHANGED lifeVars

RenderNext ==
    \/ QuerySucceeds
    \/ QueryFails
    \/ PlotlyScriptLoaded
    \/ RenderEffect

RenderSpec == RenderInit /\ [][RenderNext]_vars

\* React runs the effects of a commit: a pending render effect is not
\* postponed forever
RenderFairSpec == RenderSpec /\ WF_vars(RenderEffect)

(***************************************************************************)
(* Properties of the render effects.                                       *)
(***************************************************************************)

\* every key of src is in out with the same value, recursively through
\* nested objects
RECURSIVE Preserved(_, _)
Preserved(src, out) ==
    IF src.kind = "object"
    THEN /\ out.kind = "object"
         /\ \A k \in DOMAIN src.fields :
               /\ k \in DOMAIN out.fields
               /\ Preserved(src.fields[k], out.fields[k])
    ELSE out = src

\* the same, for the keys whose source value is not null
RECURSIVE PreservedNonNull(_, _)
PreservedNonNull(src, out) ==
    IF src.kind = "object"
    THEN /\ out.kind = "object"
         /\ \A k \in DOMAIN src.fields :
               /\ k \in DOMAIN out.fields
               /\ PreservedNonNull(src.fields[k], out.fields[k])
    ELSE src = Null \/ out = src

ComparisonRendered ==
    component = "BenchmarkComparison" /\ chart # NoChart

ViewerRendered ==
    component = "PlotViewer" /\ chart # NoChart

\* C1 as stated: in BenchmarkComparison every key present in any region of
\* the source layout is present with the same value in the layout handed to
\* the renderer.
C1_EveryKeyPreserved ==
    ComparisonRendered => Preserved(Prop(plotData, "layout"), chart.layout)

\* C1 amended: in BenchmarkComparison every key of any region of the source
\* layout whose value is not null is present with the same value in the
\* layout handed to the renderer; only a key the source omitted or set to
\* null may take a default.
C1_NonNullKeysPreserved ==
    ComparisonRendered =>
        PreservedNonNull(Prop(plotData, "layout"), chart.layout)

\* C1 witness: a comparison chart rendered from a layout that supplies
\* margin.l and leaves margin.r to the default
C1_Witness ==
    /\ ComparisonRendered
    /\ Prop(Prop(Prop(plotData, "layout"), "margin"), "l") = Scalar("10")
    /\ Prop(Prop(chart.layout, "margin"), "l") = Scalar("10")
    /\ Prop(Prop(chart.layout, "margin"), "r") = Scalar("120")

\* C2: in PlotViewer every field the fetched layout supplied (with a value
\* other than null) reaches the renderer with the source's value, defaults
\* filling only the fields the source omitted.
C2_SourceWinsInViewer ==
    ViewerRendered =>
        PreservedNonNull(Prop(plotData, "layout"), chart.layout)

\* C3: once the render effect has handled a fetched description that lacks
\* a series list or a layout, the renderer was not invoked, no resize
\* listener is registered and the component shows a fallback, not the plot
\* surface.
C3_InvalidDescriptionReported ==
    (plotData # Undefined /\ ~ValidDescription(plotData) /\ ~effectPending)
        => /\ rendererCalls = <<>>
           /\ resizeListeners = 0
           /\ chart = NoChart
           /\ View = "error"

\* the layout, config and series list of the fetched description
SourceLayout == Prop(plotData, "layout")
SourceConfig == Prop(plotData, "config")
SourceData == Prop(plotData, "data")

\* the source gives the key a value (null is no value)
Specified(region, key) == Prop(region, key) \notin {Undefined, Null}

\* the primary axes and the secondary axis keys of a layout
AxisKeys(layout) ==
    {"xaxis", "yaxis"} \cup {k \in DOMAIN Spread(layout) : IsSecondaryAxisKey(k)}

\* C15: in BenchmarkComparison, for xaxis, yaxis and every secondary axis
\* key of the source, the output region has the source region's keys plus
\* automargin, every key other than automargin has the source's value, and
\* automargin is the source's value when the source specifies one (false
\* included) and true otherwise.
C15_AxesKeepSourcePlusAutomargin ==
    ComparisonRendered =>
        \A k \in AxisKeys(SourceLayout) :
            LET src == Prop(SourceLayout, k)
                out == Prop(chart.layout, k)
            IN  /\ out.kind = "object"
                /\ DOMAIN out.fields = DOMAIN Spread(src) \cup {"automargin"}
                /\ \A f \in DOMAIN Spread(src) \ {"automargin"} :
                      out.fields[f] = Spread(src)[f]
                /\ out.fields["automargin"] =
                      IF Specified(src, "automargin")
                      THEN Prop(src, "automargin") ELSE True

\* C15 witness: a comparison chart whose source has yaxis2 with automargin
\* false and xaxis3 with a title and no automargin
C15_Witness ==
    /\ ComparisonRendered
    /\ Prop(SourceLayout, "yaxis2") = Obj([automargin |-> False])
    /\ Prop(SourceLayout, "xaxis3") = Obj([title |-> Scalar("X3")])
    /\ Prop(chart.layout, "yaxis2") = Obj([automargin |-> False])
    /\ Prop(chart.layout, "xaxis3") =
          Obj([title |-> Scalar("X3"), automargin |-> True])

LegendFields == {"orientation", "x", "y", "xanchor", "yanchor", "visible"}

\* the complete default legend block, as the claim lists it
StatedLegendDefaults ==
    [orientation |-> Scalar("v"), x |-> Scalar("1.02"), y |-> Scalar("1"),
     xanchor |-> Scalar("left"), yanchor |-> Scalar("top"),
     visible |-> True, font |-> Obj([size |-> Scalar("11")])]

\* the legend of the output is the default block when the source has none
NoLegendGivesDefaults ==
    ~Truthy(Prop(SourceLayout, "legend"))
        => Prop(chart.layout, "legend") = Obj(StatedLegendDefaults)

\* "supplied" read as "the key is present": every field, font.size
\* included, has the source's value when its key is present and the
\* default otherwise
LegendMergedByKeyPresence ==
    LET src == Prop(SourceLayout, "legend")
        out == Prop(chart.layout, "legend")
    IN  Truthy(src) =>
          /\ \A f \in LegendFields :
                Prop(out, f) = IF f \in DOMAIN Spread(src)
                               THEN Prop(src, f) ELSE StatedLegendDefaults[f]
          /\ Prop(Prop(out, "font"), "size") =
                IF "size" \in DOMAIN Spread(Prop(src, "font"))
                THEN Prop(Prop(src, "font"), "size") ELSE Scalar("11")

\* "supplied" read as "the key has a value that is not null"
LegendMergedByValue ==
    LET src == Prop(SourceLayout, "legend")
        out == Prop(chart.layout, "legend")
    IN  Truthy(src) =>
          /\ \A f \in LegendFields :
                Prop(out, f) = IF Specified(src, f)
                               THEN Prop(src, f) ELSE StatedLegendDefaults[f]
          /\ Prop(Prop(out, "font"), "size") =
                IF Specified(Prop(src, "font"), "size")
                THEN Prop(Prop(src, "font"), "size") ELSE Scalar("11")

\* C16 as stated: with no source legend the output legend is the default
\* block; with a source legend each of orientation, x, y, xanchor, yanchor,
\* visible and font.size has the source's value if supplied and the default
\* otherwise (under either reading of "supplied").
C16_LegendFieldsAsStated ==
    ComparisonRendered =>
        /\ NoLegendGivesDefaults
        /\ LegendMergedByKeyPresence \/ LegendMergedByValue

\* C16 amended: with no source legend the output legend is the default
\* block; with a source legend, orientation, x, y, xanchor and yanchor have
\* the source's value when it is not null and the default otherwise, visible
\* is false when the source says false and true otherwise, and the font is
\* merged per key: font.size is the source's when the key is present (a
\* null included) and 11 otherwise, other font keys are kept.
C16_LegendMergedPerField ==
    ComparisonRendered =>
        /\ NoLegendGivesDefaults
        /\ LET src == Prop(SourceLayout, "legend")
               out == Prop(chart.layout, "legend")
           IN  Truthy(src) =>
                 /\ \A f \in LegendFields :
                       Prop(out, f) = IF Specified(src, f)
                                      THEN Prop(src, f)
                                      ELSE StatedLegendDefaults[f]
                 /\ Prop(Prop(out, "font"), "size") =
                       IF "size" \in DOMAIN Spread(Prop(src, "font"))
                       THEN Prop(Prop(src, "font"), "size") ELSE Scalar("11")
                 /\ \A f \in DOMAIN Spread(Prop(src, "font")) :
                       Prop(Prop(out, "font"), f) = Prop(Prop(src, "font"), f)

\* C16 witness: a comparison chart whose source legend gives only a font
\* colour and an orientation
C16_Witness ==
    /\ ComparisonRendered
    /\ Prop(SourceLayout, "legend") =
          Obj([orientation |-> Scalar("h"),
               font |-> Obj([color |-> Scalar("red")])])
    /\ Prop(chart.layout, "legend") =
          Obj([orientation |-> Scalar("h"), x |-> Scalar("1.02"),
               y |-> Scalar("1"), xanchor |-> Scalar("left"),
               yanchor |-> Scalar("top"), visible |-> True,
               font |-> Obj([size |-> Scalar("11"),
                             color |-> Scalar("red")])])

\* C17: whenever a chart was rendered from a description with a series
\* list, the series list handed to the renderer is the source's, unchanged.
C17_SeriesUnchanged ==
    (chart # NoChart /\ SourceData.kind = "array") => chart.data = SourceData

\* C17 witness: a comparison chart with the two source series whose layout
\* the reconciler did change
C17_Witness ==
    /\ ComparisonRendered
    /\ SourceData = SourceTraces
    /\ chart.data = SourceTraces
    /\ chart.layout # SourceLayout

\* the description specifies every field the comparison reconciler has a
\* default for
FullySpecified(desc) ==
    LET layout == Prop(desc, "layout")
        legend == Prop(layout, "legend")
    IN  /\ Prop(desc, "data").kind = "array"
        /\ Specified(layout, "autosize")
        /\ Prop(layout, "showlegend") \in {True, False}
        /\ \A f \in {"l", "r", "t", "b", "pad"} :
              Specified(Prop(layout, "margin"), f)
        /\ Specified(Prop(layout, "font"), "size")
        /\ \A k \in AxisKeys(layout) : Specified(Prop(layout, k), "automargin")
        /\ \A f \in {"orientation", "x", "y", "xanchor", "yanchor"} :
              Specified(legend, f)
        /\ Prop(legend, "visible") \in {True, False}
        /\ Specified(Prop(legend, "font"), "size")
        /\ \A f \in {"responsive", "displayModeBar", "displaylogo",
                     "modeBarButtonsToRemove"} :
              Specified(Prop(desc, "config"), f)

\* what the renderer was handed, read as a chart description again
ChartAsDescription ==
    Obj([data |-> chart.data, layout |-> chart.layout,
         config |-> chart.config])

\* C18: in BenchmarkComparison a description that specifies every
\* default-covered field reaches the renderer with its own layout, series
\* and config, and reconciling what the renderer was handed gives the same
\* again.
C18_IdentityOnFullySpecified ==
    ComparisonRendered =>
        /\ FullySpecified(plotData) =>
              /\ chart.layout = SourceLayout
              /\ chart.data = SourceData
              /\ chart.config = SourceConfig
        /\ NewPlotArgs(ChartAsDescription) = chart

\* C18 witness: a comparison chart rendered from a fully specified
\* description whose margin.l and font.family the source chose
C18_Witness ==
    /\ ComparisonRendered
    /\ FullySpecified(plotData)
    /\ Prop(Prop(SourceLayout, "margin"), "l") = Scalar("10")
    /\ Prop(Prop(SourceLayout, "font"), "family") = Scalar("Arial")
    /\ chart.layout = SourceLayout

\* C19: in BenchmarkComparison each of margin l, r, t, b, pad, font.size,
\* autosize and showlegend that the source omits has its default (80, 120,
\* 100, 120, 10; 12; true; true), whatever sibling fields the source gives,
\* and the margin and font fields the source gives keep the source's value.
C19_OmittedFieldsTakeDefaults ==
    ComparisonRendered =>
        LET margin == Spread(Prop(SourceLayout, "margin"))
            font == Spread(Prop(SourceLayout, "font"))
            stated == [l |-> Scalar("80"), r |-> Scalar("120"),
                       t |-> Scalar("100"), b |-> Scalar("120"),
                       pad |-> Scalar("10")]
        IN  /\ \A f \in DOMAIN stated :
                  Prop(Prop(chart.layout, "margin"), f) =
                      IF f \in DOMAIN margin THEN margin[f] ELSE stated[f]
            /\ Prop(Prop(chart.layout, "font"), "size") =
                  IF "size" \in DOMAIN font THEN font["size"] ELSE Scalar("12")
            /\ "autosize" \notin DOMAIN Spread(SourceLayout)
                  => Prop(chart.layout, "autosize") = True
            /\ "showlegend" \notin DOMAIN Spread(SourceLayout)
                  => Prop(chart.layout, "showlegend") = True

\* C19 witness: a comparison chart whose source gives only margin.l and
\* font.family
C19_Witness ==
    /\ ComparisonRendered
    /\ Prop(SourceLayout, "margin") = Obj([l |-> Scalar("10")])
    /\ Prop(SourceLayout, "font") = Obj([family |-> Scalar("Arial")])
    /\ Prop(chart.layout, "margin") =
          Obj([l |-> Scalar("10"), r |-> Scalar("120"), t |-> Scalar("100"),
               b |-> Scalar("120"), pad |-> Scalar("10")])
    /\ Prop(chart.layout, "font") =
          Obj([size |-> Scalar("12"), family |-> Scalar("Arial")])

\* C20: in both components the config handed to the renderer has every
\* field of the source config with the source's value, every default field
\* the source config does not define with its default, and nothing else;
\* with no source config it is the defaults.
C20_ConfigMerged ==
    chart # NoChart =>
        LET src == IF Truthy(SourceConfig) THEN Spread(SourceConfig)
                   ELSE EmptyFields
            stated == [responsive |-> True, displayModeBar |-> True,
                       displaylogo |-> False,
                       modeBarButtonsToRemove |->
                           Arr(<<Scalar("lasso2d"), Scalar("select2d")>>)]
        IN  /\ chart.config.kind = "object"
            /\ DOMAIN chart.config.fields = DOMAIN src \cup DOMAIN stated
            /\ \A f \in DOMAIN src : chart.config.fields[f] = src[f]
            /\ \A f \in DOMAIN stated \ DOMAIN src :
                  chart.config.fields[f] = stated[f]

\* C20 witness: a PlotViewer chart whose source config sets responsive to
\* false and adds scrollZoom
C20_Witness ==
    /\ ViewerRendered
    /\ SourceConfig = Obj([responsive |-> False, scrollZoom |-> True])
    /\ chart.config =
          Obj([responsive |-> False, scrollZoom |-> True,
               displayModeBar |-> True, displaylogo |-> False,
               modeBarButtonsToRemove |->
                   Arr(<<Scalar("lasso2d"), Scalar("select2d")>>)])

\* C27: in PlotViewer, in every ordering of the arrival of the chart data
\* and the end of the loading of the rendering-engine script, once both
\* have happened and the data is structurally valid, the chart is
\* eventually rendered: newPlot is invoked for the current data.
C27_ChartEventuallyRendered ==
    (/\ component = "PlotViewer"
     /\ queryStatus = "success"
     /\ windowPlotly
     /\ ValidDescription(plotData))
        ~> (/\ \E n \in DOMAIN rendererCalls : rendererCalls[n] = "newPlot"
            /\ chart = NewPlotArgs(plotData))

(***************************************************************************)
(* The life of a chart component: selections, the query cache, commits,    *)
(* the render effect with its cleanup, and unmounting.                     *)
(***************************************************************************)
MaxFetches == 2
MaxDetached == 2

CasNumbers == {"A", "B", "C"}
Versions == {"v1", "v2"}

\* selectedCas of BenchmarkComparison: up to three different substances;
\* PlotViewer's cas prop is the selection <<cas>>
Selections ==
    {sel \in UNION {[1..n -> CasNumbers] : n \in 0..3} :
        \A i, j \in DOMAIN sel : i # j => sel[i] # sel[j]}

\* a query key that leaves the selection out
QueryKeyWithoutSelection(selection) == <<>>

\* queryKey: ["ssd-comparison", selectedCas] / ["plot", cas, type]
QueryKey(selection) == selection

\* the enabled option of useQuery
Enabled(selection) ==
    IF component = "BenchmarkComparison"
    THEN Len(selection) >= 2 /\ Len(selection) <= 3
    ELSE selection # <<>>

\* a cache entry: the data and error of the last settled retrieval, whether
\* a retrieval is in flight, and the selection its queryFn was called for
IdleQuery ==
    [data |-> Undefined, error |-> FALSE, fetching |-> FALSE,
     variables |-> <<>>]

\* the chart description the server builds for a selection: one series per
\* substance
ServerResponse(selection, version) ==
    Obj([data |-> Arr([i \in 1..Len(selection) |-> Scalar(selection[i])]),
         layout |-> Obj([title |-> Scalar(version)])])

\* what useQuery returns for a selection
ObservedQuery(selection, qs) == qs[QueryKey(selection)]
isLoading(q) == q.data = Undefined /\ q.fetching

\* what the component's JSX returns for the plot area
LifeView(selection, qs, isMounted) ==
    CASE ~isMounted -> "unmounted"
      [] component = "BenchmarkComparison" /\ Len(selection) < 2
            -> "placeholder"
      [] isLoading(ObservedQuery(selection, qs)) -> "skeleton"
      [] ObservedQuery(selection, qs).error -> "error"
      [] OTHER -> "plot"

CurrentView == LifeView(selectedCas, queries, mounted)

\* React keeps the DOM node of the plot area when the element type at that
\* position stays the same: always within one view, and in
\* BenchmarkComparison between the placeholder, error and plot <div>s
SameNode(before, after) ==
    \/ before = after /\ before # "unmounted"
    \/ /\ component = "BenchmarkComparison"
       /\ before \in {"placeholder", "error", "plot"}
       /\ after \in {"placeholder", "error", "plot"}

\* useQuery starts a retrieval for an enabled selection without data
StartFetchIfNeeded(selection, qs) ==
    LET key == QueryKey(selection)
    IN  IF Enabled(selection) /\ qs[key].data = Undefined /\ ~qs[key].fetching
        THEN [qs EXCEPT ![key] = [data |-> Undefined, error |-> FALSE,
                                  fetching |-> TRUE,
                                  variables |-> selection]]
        ELSE qs

\* a render and commit with a new selection or cache: plotData is what
\* useQuery returns, the render effect is scheduled when plotData changed,
\* and a chart on a DOM node that the commit removes stays unpurged
Commit(selection, qs) ==
    LET after == LifeView(selection, qs, TRUE)
        removed == ~SameNode(CurrentView, after) /\ chart # NoChart
    IN  /\ selectedCas' = selection
        /\ queries' = qs
        /\ plotData' = ObservedQuery(selection, qs).data
        /\ effectPending' = (plotData' # plotData)
        /\ chart' = IF removed THEN NoChart ELSE chart
        /\ detachedHandles' =
              IF removed THEN detachedHandles + 1 ELSE detachedHandles
        /\ detachedHandles' <= MaxDetached
        /\ fetchCount' =
              IF qs[QueryKey(selection)].fetching
                    /\ ~queries[QueryKey(selection)].fetching
              THEN fetchCount + 1 ELSE fetchCount
        /\ fetchCount' <= MaxFetches
        /\ UNCHANGED <<component, source, queryStatus, windowPlotly,
                       plotlyLoaded, rendererCalls, resizeListeners,
                       effectCleanup, consoleErrors, mounted, effectCalls>>
        /\ UNCHANGED builderVars
        /\ UNCHANGED classifyVars
        /\ UNCHANGED uiVars

LifeInit ==
    /\ component \in Components
    /\ mounted = TRUE
    /\ \E first \in Selections :
          /\ Len(first) = IF component = "BenchmarkComparison" THEN 0 ELSE 1
          /\ selectedCas = first
          /\ queries = StartFetchIfNeeded(first,
                                          [key \in Selections |-> IdleQuery])
          /\ fetchCount = IF Enabled(first) THEN 1 ELSE 0
    /\ plotData = Undefined
    /\ windowPlotly \in BOOLEAN
    /\ plotlyLoaded = (component = "BenchmarkComparison" /\ windowPlotly)
    /\ effectPending = FALSE
    /\ chart = NoChart
    /\ resizeListeners = 0
    /\ effectCleanup = FALSE
    /\ detachedHandles = 0
    /\ effectCalls = <<>>
    /\ SelectIdle /\ InfoIdle /\ ApiIdle
    /\ source = Undefined
    /\ queryStatus = "idle"
    /\ rendererCalls = <<>>
    /\ consoleErrors = 0
    /\ ec10eqData = NoResult
    /\ colorBy = "trophic_group"
    /\ plotResult = NoResult
    /\ payload = Undefined
    /\ accepted = "unknown"

\* BenchmarkComparison: handleAddCas on a suggestion (suggestions leave out
\* the substances already selected, and no input is shown once three are)
handleAddCas ==
    /\ component = "BenchmarkComparison"
    /\ mounted /\ ~effectPending
    /\ Len(selectedCas) < 3
    /\ \E cas \in CasNumbers :
          /\ \A i \in DOMAIN selectedCas : selectedCas[i] # cas
          /\ LET selection == Append(selectedCas, cas)
             IN  Commit(selection, StartFetchIfNeeded(selection, queries))

\* BenchmarkComparison: handleRemoveCas
handleRemoveCas ==
    /\ component = "BenchmarkComparison"
    /\ mounted /\ ~effectPending
    /\ \E cas \in CasNumbers :
          /\ \E i \in DOMAIN selectedCas : selectedCas[i] = cas
          /\ LET Kept(c) == c # cas
                 selection == SelectSeq(selectedCas, Kept)
             IN  Commit(selection, StartFetchIfNeeded(selection, queries))

\* PlotViewer: the parent passes another cas
CasPropChanges ==
    /\ component = "PlotViewer"
    /\ mounted /\ ~effectPending
    /\ \E cas \in CasNumbers :
          /\ selectedCas # <<cas>>
          /\ Commit(<<cas>>, StartFetchIfNeeded(<<cas>>, queries))

\* the query library retrieves the current selection again (window focus,
\* reconnect, stale data)
Refetch ==
    /\ mounted /\ ~effectPending
    /\ Enabled(selectedCas)
    /\ LET key == QueryKey(selectedCas)
           q == queries[key]
       IN  /\ ~q.fetching
           /\ Commit(selectedCas,
                     [queries EXCEPT ![key] =
                         [data |-> q.data,
                          error |-> q.error /\ q.data # Undefined,
                          fetching |-> TRUE,
                          variables |-> selectedCas]])

\* a retrieval resolves with the server's description for the selection it
\* was started for
FetchSucceeds ==
    /\ mounted /\ ~effectPending
    /\ \E key \in DOMAIN queries, version \in Versions :
          /\ queries[key].fetching
          /\ Commit(selectedCas,
                    [queries EXCEPT ![key] =
                        [data |-> ServerResponse(queries[key].variables,
                                                 version),
                         error |-> FALSE, fetching |-> FALSE,
                         variables |-> queries[key].variables]])

\* a retrieval rejects; data of an earlier success stays in the cache
FetchFails ==
    /\ mounted /\ ~effectPending
    /\ \E key \in DOMAIN queries :
          /\ queries[key].fetching
          /\ Commit(selectedCas,
                    [queries EXCEPT ![key].error = TRUE,
                                    ![key].fetching = FALSE])

\* the CDN script has run; BenchmarkComparison's onload sets plotlyLoaded,
\* PlotViewer registers no onload handler
LifePlotlyScriptLoaded ==
    /\ mounted /\ ~effectPending
    /\ ~windowPlotly
    /\ windowPlotly' = TRUE
    /\ IF component = "BenchmarkComparison"
       THEN plotlyLoaded' = TRUE /\ effectPending' = TRUE
       ELSE UNCHANGED <<plotlyLoaded, effectPending>>
    /\ UNCHANGED <<component, source, queryStatus, plotData, chart,
                   rendererCalls, resizeListeners, effectCleanup,
                   consoleErrors>>
    /\ UNCHANGED lifeVars
    /\ UNCHANGED builderVars
    /\ UNCHANGED classifyVars
    /\ UNCHANGED uiVars

\* plotRef.current when passive effects run: the plot <div> of this commit
LifeRefMounted == CurrentView = "plot"

\* the cleanup the previous run of the render effect returned
LifeCleanupCalls ==
    IF ~effectCleanup THEN <<>>
    ELSE IF component = "BenchmarkComparison" /\ LifeRefMounted
               /\ windowPlotly
         THEN <<"removeListener", "purge">>
         ELSE <<"removeListener">>

\* the body of the render effect on a valid description
LifeBodyCalls ==
    IF component = "BenchmarkComparison"
    THEN <<"purge", "newPlot", "addListener">>
    ELSE <<"newPlot", "addListener">>

\* the render effect after a commit that changed plotData or plotlyLoaded:
\* the previous cleanup, then the body
LifeRenderEffect ==
    /\ mounted /\ effectPending
    /\ effectPending' = FALSE
    /\ LET guard == /\ Truthy(plotData)
                    /\ LifeRefMounted
                    /\ windowPlotly
                    /\ component = "BenchmarkComparison" => plotlyLoaded
           listenersLeft ==
               IF effectCleanup THEN resizeListeners - 1 ELSE resizeListeners
           purged == \E n \in DOMAIN LifeCleanupCalls :
                         LifeCleanupCalls[n] = "purge"
       IN  IF guard /\ ValidDescription(plotData)
           THEN /\ effectCalls' = LifeCleanupCalls \o LifeBodyCalls
                /\ chart' = NewPlotArgs(plotData)
                /\ resizeListeners' = listenersLeft + 1
                /\ effectCleanup' = TRUE
                /\ UNCHANGED consoleErrors
           ELSE /\ effectCalls' = LifeCleanupCalls
                /\ chart' = IF purged THEN NoChart ELSE chart
                /\ resizeListeners' = listenersLeft
                /\ effectCleanup' = FALSE
                /\ consoleErrors' =
                      IF guard THEN consoleErrors + 1 ELSE consoleErrors
    /\ UNCHANGED <<component, source, queryStatus, plotData, windowPlotly,
                   plotlyLoaded, rendererCalls, mounted, selectedCas,
                   queries, fetchCount, detachedHandles>>
    /\ UNCHANGED builderVars
    /\ UNCHANGED classifyVars
    /\ UNCHANGED uiVars

\* the component unmounts: React detaches plotRef and removes the DOM, then
\* runs the cleanups of the render effect and of the Plotly loader effect,
\* whose purge is skipped because plotRef.current is null
Unmount ==
    /\ mounted /\ ~effectPending
    /\ mounted' = FALSE
    /\ effectCalls' = IF effectCleanup THEN <<"removeListener">> ELSE <<>>
    /\ resizeListeners' =
          IF effectCleanup THEN resizeListeners - 1 ELSE resizeListeners
    /\ effectCleanup' = FALSE
    /\ chart' = NoChart
    /\ detachedHandles' =
          IF chart # NoChart THEN detachedHandles + 1 ELSE detachedHandles
    /\ detachedHandles' <= MaxDetached
    /\ UNCHANGED <<component, source, queryStatus, plotData, windowPlotly,
                   plotlyLoaded, effectPending, rendererCalls, consoleErrors,
                   selectedCas, queries, fetchCount>>
    /\ UNCHANGED builderVars
    /\ UNCHANGED classifyVars
    /\ UNCHANGED uiVars

LifeNext ==
    \/ handleAddCas
    \/ handleRemoveCas
    \/ CasPropChanges
    \/ Refetch
    \/ FetchSucceeds
    \/ FetchFails
    \/ LifePlotlyScriptLoaded
    \/ LifeRenderEffect
    \/ Unmount

LifeSpec == LifeInit /\ [][LifeNext]_vars

(***************************************************************************)
(* Properties of the life of a chart component.                            *)
(***************************************************************************)

\* call a comes before call b in a sequence of calls
Precedes(calls, a, b) ==
    \E m, n \in DOMAIN calls : m < n /\ calls[m] = a /\ calls[n] = b

Called(calls, a) == \E n \in DOMAIN calls : calls[n] = a

\* C12: whenever the render effect instantiates a chart (newPlot) on a
\* surface that already holds one, a purge comes before the newPlot; a
\* resize listener registered before is removed before the newPlot and a
\* new one is added after it; and never more than one resize listener is
\* registered.
C12_PurgeBeforeNewPlot ==
    [][ /\ resizeListeners' <= 1
        /\ (effectPending /\ ~effectPending' /\ Called(effectCalls', "newPlot"))
              => /\ chart # NoChart
                    => Precedes(effectCalls', "purge", "newPlot")
                 /\ resizeListeners > 0
                    => Precedes(effectCalls', "removeListener", "newPlot")
                 /\ Precedes(effectCalls', "newPlot", "addListener") ]_vars

\* C13: in BenchmarkComparison, once the effects of a commit have run,
\* there is no unpurged chart on a surface the commit removed, no chart
\* left on a plot area that no longer shows the plot surface, and no resize
\* listener of a chart that is no longer shown.
C13_HandlePurgedWhenNotShown ==
    (component = "BenchmarkComparison" /\ ~effectPending) =>
        /\ detachedHandles = 0
        /\ CurrentView # "plot" => chart = NoChart /\ resizeListeners = 0

\* the selection a rendered chart was built for: one series per substance
ChartSelection == [i \in DOMAIN chart.data.items |-> chart.data.items[i].v]

RetrievalInFlight == \E key \in DOMAIN queries : queries[key].fetching

\* C14: once the effects of a commit have run, a chart shown on the plot
\* surface is the chart of the current selection, whatever retrievals of
\* older selections have completed before or after the current one's.
C14_NewestSelectionShown ==
    (mounted /\ ~effectPending /\ CurrentView = "plot" /\ chart # NoChart)
        => ChartSelection = selectedCas

\* C14 witness: the retrievals of an older and of the current selection
\* have both completed and the chart of the current selection is shown
C14_Witness ==
    /\ mounted /\ ~effectPending /\ ~RetrievalInFlight
    /\ CurrentView = "plot" /\ chart # NoChart
    /\ ChartSelection = selectedCas
    /\ \E key \in DOMAIN queries :
          /\ key # QueryKey(selectedCas)
          /\ queries[key].data # Undefined

(***************************************************************************)
(* Strings and numbers of createEC10eqPlotFromData.  A string is the       *)
(* sequence of its characters; a number is m * 10^e, or one of Infinity,   *)
(* -Infinity and NaN.                                                      *)
(***************************************************************************)

\* the characters the model uses, in ascending UTF-16 code unit order
CodeOrder ==
    <<" ", "-", "0", "1", "2", "3", "4", "5", "6", "7", "8", "9",
      "A", "D", "F", "K", "L", "S",
      "a", "b", "c", "d", "e", "f", "g", "h", "i", "l", "m", "n", "o", "p",
      "r", "s", "t", "u", "y">>

CodeUnit(c) == CHOOSE i \in 1..Len(CodeOrder) : CodeOrder[i] = c

\* a < b as JavaScript compares strings: by code units, a proper prefix first
RECURSIVE StrLess(_, _)
StrLess(a, b) ==
    IF b = <<>> THEN FALSE
    ELSE IF a = <<>> THEN TRUE
    ELSE IF Head(a) # Head(b) THEN CodeUnit(Head(a)) < CodeUnit(Head(b))
    ELSE StrLess(Tail(a), Tail(b))

\* String.prototype.toLowerCase / toUpperCase on one character
LowerChar(c) ==
    CASE c = "A" -> "a" [] c = "D" -> "d" [] c = "F" -> "f"
      [] c = "K" -> "k" [] c = "L" -> "l" [] c = "S" -> "s"
      [] OTHER -> c
UpperChar(c) ==
    CASE c = "a" -> "A" [] c = "d" -> "D" [] c = "f" -> "F"
      [] c = "l" -> "L" [] c = "s" -> "S"
      [] OTHER -> c
toLowerCase(str) == [i \in 1..Len(str) |-> LowerChar(str[i])]

\* str.charAt(0).toUpperCase() + str.slice(1)
Capitalized(str) ==
    IF str = <<>> THEN <<>> ELSE <<UpperChar(Head(str))>> \o Tail(str)

\* String(n) for a natural number
RECURSIVE NatToString(_)
NatToString(n) ==
    IF n < 10 THEN <<CodeOrder[n + 3]>>
    ELSE NatToString(n \div 10) \o <<CodeOrder[(n % 10) + 3]>>

\* str.split(sep): the pieces between the occurrences of sep
IsPrefix(p, str) == Len(p) <= Len(str) /\ SubSeq(str, 1, Len(p)) = p
RECURSIVE SplitFrom(_, _, _)
SplitFrom(str, sep, piece) ==
    IF str = <<>> THEN <<piece>>
    ELSE IF IsPrefix(sep, str)
         THEN <<piece>> \o SplitFrom(SubSeq(str, Len(sep) + 1, Len(str)),
                                     sep, <<>>)
         ELSE SplitFrom(Tail(str), sep, Append(piece, Head(str)))
Split(str, sep) == SplitFrom(str, sep, <<>>)

\* Array.prototype.sort() without a comparator, on entries [k, v] where k
\* is String(v): ascending by the code units of k, stable
RECURSIVE InsertByKey(_, _)
InsertByKey(x, sorted) ==
    IF sorted = <<>> THEN <<x>>
    ELSE IF StrLess(x.k, Head(sorted).k) THEN <<x>> \o sorted
    ELSE <<Head(sorted)>> \o InsertByKey(x, Tail(sorted))
RECURSIVE SortByKey(_)
SortByKey(entries) ==
    IF entries = <<>> THEN <<>>
    ELSE InsertByKey(entries[Len(entries)],
                     SortByKey(SubSeq(entries, 1, Len(entries) - 1)))

\* an array of strings left in the order it was given
UnsortedStrings(strs) == strs

\* strs.sort() for an array of strings
SortStrings(strs) ==
    LET sorted == SortByKey([i \in 1..Len(strs) |->
                                [k |-> strs[i], v |-> strs[i]]])
    IN  [i \in 1..Len(sorted) |-> sorted[i].v]

\* nums.sort() for an array of natural numbers: compared as strings
SortNumbers(nums) ==
    LET sorted == SortByKey([i \in 1..Len(nums) |->
                                [k |-> NatToString(nums[i]), v |-> nums[i]]])
    IN  [i \in 1..Len(sorted) |-> sorted[i].v]

\* [...new Set(xs)]: the distinct elements in first-occurrence order
RECURSIVE Distinct(_)
Distinct(xs) ==
    IF xs = <<>> THEN <<>>
    ELSE LET init == Distinct(SubSeq(xs, 1, Len(xs) - 1))
             last == xs[Len(xs)]
         IN  IF \E i \in 1..Len(init) : init[i] = last
             THEN init ELSE Append(init, last)

Range(seq) == {seq[i] : i \in 1..Len(seq)}
IndexOf(seq, x) == CHOOSE i \in 1..Len(seq) : seq[i] = x

\* numbers
Num(m, e) == [kind |-> "num", m |-> m, e |-> e]
Infinity == [kind |-> "Infinity"]
NegInfinity == [kind |-> "-Infinity"]
NaN == [kind |-> "NaN"]

RECURSIVE DigitCount(_)
DigitCount(m) == IF m < 10 THEN 1 ELSE 1 + DigitCount(m \div 10)
RECURSIVE Pow10(_)
Pow10(n) == IF n = 0 THEN 1 ELSE 10 * Pow10(n - 1)
IsPowerOfTen(m) == m = Pow10(DigitCount(m) - 1)

\* Math.floor(Math.log10(x)) and Math.ceil(Math.log10(x)): an integer, or
\* Infinity, -Infinity or NaN
FloorLog10(x) ==
    CASE x.kind = "Infinity" -> Infinity
      [] x.kind \in {"-Infinity", "NaN"} -> NaN
      [] x.m = 0 -> NegInfinity
      [] x.m < 0 -> NaN
      [] OTHER -> Num(x.e + DigitCount(x.m) - 1, 0)
CeilLog10(x) ==
    CASE x.kind = "Infinity" -> Infinity
      [] x.kind \in {"-Infinity", "NaN"} -> NaN
      [] x.m = 0 -> NegInfinity
      [] x.m < 0 -> NaN
      [] IsPowerOfTen(x.m) -> Num(x.e + DigitCount(x.m) - 1, 0)
      [] OTHER -> Num(x.e + DigitCount(x.m), 0)

\* a < b on finite numbers
FiniteLess(a, b) ==
    LET mag(x) == IF x.m < 0 THEN 0 - x.m ELSE x.m
        width == IF DigitCount(mag(a)) > DigitCount(mag(b))
                 THEN DigitCount(mag(a)) ELSE DigitCount(mag(b))
        norm(x) == mag(x) * Pow10(width - DigitCount(mag(x)))
        top(x) == x.e + DigitCount(mag(x))
        magLess(x, y) ==
            IF top(x) # top(y) THEN top(x) < top(y) ELSE norm(x) < norm(y)
    IN  CASE a.m = 0 -> b.m > 0
          [] b.m = 0 -> a.m < 0
          [] a.m < 0 /\ b.m > 0 -> TRUE
          [] a.m > 0 /\ b.m < 0 -> FALSE
          [] a.m > 0 -> magLess(a, b)
          [] OTHER -> magLess(b, a)

\* a < b, false when either side is NaN
NumLess(a, b) ==
    CASE a.kind = "NaN" \/ b.kind = "NaN" -> FALSE
      [] a.kind = "-Infinity" -> b.kind # "-Infinity"
      [] b.kind = "Infinity" -> a.kind # "Infinity"
      [] a.kind = "Infinity" \/ b.kind = "-Infinity" -> FALSE
      [] OTHER -> FiniteLess(a, b)

\* Math.min(...xs) and Math.max(...xs)
RECURSIVE MathMin(_)
MathMin(xs) ==
    IF xs = <<>> THEN Infinity
    ELSE LET rest == MathMin(Tail(xs))
         IN  IF NumLess(Head(xs), rest) THEN Head(xs) ELSE rest
RECURSIVE MathMax(_)
MathMax(xs) ==
    IF xs = <<>> THEN NegInfinity
    ELSE LET rest == MathMax(Tail(xs))
         IN  IF NumLess(rest, Head(xs)) THEN Head(xs) ELSE rest

\* for (let i = minPower; i <= maxPower; i++) push(Math.pow(10, i))
TickValues(minPower, maxPower) ==
    IF minPower.kind = "num" /\ maxPower.kind = "num"
          /\ minPower.m <= maxPower.m
    THEN [i \in 1..(maxPower.m - minPower.m + 1) |->
             Num(1, minPower.m + i - 1)]
    ELSE <<>>

(***************************************************************************)
(* createEC10eqPlotFromData.  A JavaScript object with string keys is the  *)
(* sequence of its [key, value] entries in insertion order.                *)
(***************************************************************************)
Keys(o) == [i \in 1..Len(o) |-> o[i].key]
HasKey(o, key) == \E i \in 1..Len(o) : o[i].key = key
KeyIndex(o, key) == CHOOSE i \in 1..Len(o) : o[i].key = key
Lookup(o, key) == o[KeyIndex(o, key)].value

RECURSIVE Flatten(_)
Flatten(seqs) ==
    IF seqs = <<>> THEN <<>> ELSE Head(seqs) \o Flatten(Tail(seqs))

algae == <<"a", "l", "g", "a", "e">>
crustaceans == <<"c", "r", "u", "s", "t", "a", "c", "e", "a", "n", "s">>
fish == <<"f", "i", "s", "h">>
plants == <<"p", "l", "a", "n", "t", "s">>
molluscs == <<"m", "o", "l", "l", "u", "s", "c", "s">>
insects == <<"i", "n", "s", "e", "c", "t", "s">>
amphibians == <<"a", "m", "p", "h", "i", "b", "i", "a", "n", "s">>
annelids == <<"a", "n", "n", "e", "l", "i", "d", "s">>

TROPHIC_GROUP_COLORS ==
    (algae :> "#2ca02c") @@ (crustaceans :> "#1f77b4") @@ (fish :> "#ff7f0e")
    @@ (plants :> "#9467bd") @@ (molluscs :> "#8c564b")
    @@ (insects :> "#e377c2") @@ (amphibians :> "#7f7f7f")
    @@ (annelids :> "#bcbd22")

TROPHIC_GROUP_SYMBOLS ==
    (algae :> "circle") @@ (crustaceans :> "square")
    @@ (fish :> "triangle-up") @@ (plants :> "diamond")
    @@ (molluscs :> "diamond") @@ (insects :> "x")
    @@ (amphibians :> "star") @@ (annelids :> "hourglass")

colorPalette ==
    <<"#1f77b4", "#ff7f0e", "#2ca02c", "#d62728", "#9467bd",
      "#8c564b", "#e377c2", "#7f7f7f", "#bcbd22", "#17becf">>

\* table[key] || fallback
LookupOr(table, key, fallback) ==
    IF key \in DOMAIN table THEN table[key] ELSE fallback

isDetailedFormat(data) == "trophic_groups" \in DOMAIN data

\* one iteration of convertToDetailed's loop that puts the new observation
\* in front of the species' list instead of behind it
ConvertStepPrepending(groups, endpoint) ==
    LET tg == endpoint.trophic_group
        species == endpoint.species
        withGroup == IF HasKey(groups, tg) THEN groups
                     ELSE Append(groups, [key |-> tg, value |-> <<>>])
        gi == KeyIndex(withGroup, tg)
        group == withGroup[gi].value
        withSpecies == IF HasKey(group, species) THEN group
                       ELSE Append(group, [key |-> species, value |-> <<>>])
        si == KeyIndex(withSpecies, species)
        pushed == <<[EC10eq |-> endpoint.EC10eq,
                     test_id |-> endpoint.test_id,
                     year |-> endpoint.year,
                     author |-> endpoint.author]>>
                  \o withSpecies[si].value
    IN  [withGroup EXCEPT ![gi].value =
            [withSpecies EXCEPT ![si].value = pushed]]

\* one iteration of convertToDetailed's loop over simpleData.endpoints
ConvertStep(groups, endpoint) ==
    LET tg == endpoint.trophic_group
        species == endpoint.species
        withGroup == IF HasKey(groups, tg) THEN groups
                     ELSE Append(groups, [key |-> tg, value |-> <<>>])
        gi == KeyIndex(withGroup, tg)
        group == withGroup[gi].value
        withSpecies == IF HasKey(group, species) THEN group
                       ELSE Append(group, [key |-> species, value |-> <<>>])
        si == KeyIndex(withSpecies, species)
        pushed == Append(withSpecies[si].value,
                         [EC10eq |-> endpoint.EC10eq,
                          test_id |-> endpoint.test_id,
                          year |-> endpoint.year,
                          author |-> endpoint.author])
    IN  [withGroup EXCEPT ![gi].value =
            [withSpecies EXCEPT ![si].value = pushed]]

RECURSIVE ConvertLoop(_, _)
ConvertLoop(endpoints, groups) ==
    IF endpoints = <<>> THEN groups
    ELSE ConvertLoop(Tail(endpoints), ConvertStep(groups, Head(endpoints)))

convertToDetailed(data) ==
    IF isDetailedFormat(data) THEN data
    ELSE [cas |-> data.cas,
          chemical_name |-> data.chemical_name,
          trophic_groups |-> ConvertLoop(data.endpoints, <<>>)]

\* markerColors painted by the point's position in the series instead of
\* by its year or author
markerColorsByPosition(endpoints, trophicGroup, mode) ==
    [i \in 1..Len(endpoints) |->
        colorPalette[((i - 1) % Len(colorPalette)) + 1]]

\* markerColors thinned to one colour per distinct year or author
markerColorsPerKey(endpoints, trophicGroup, mode) ==
    LET keys == Distinct([i \in 1..Len(endpoints) |->
                    IF mode = "author" THEN endpoints[i].author
                    ELSE NatToString(endpoints[i].year)])
    IN  [i \in 1..Len(keys) |->
            colorPalette[((i - 1) % Len(colorPalette)) + 1]]

\* markerColors of one series
markerColors(endpoints, trophicGroup, mode) ==
    CASE mode = "trophic_group" ->
            [i \in 1..Len(endpoints) |->
                LookupOr(TROPHIC_GROUP_COLORS, toLowerCase(trophicGroup),
                         "#000000")]
      [] mode = "year" ->
            LET years == [i \in 1..Len(endpoints) |-> endpoints[i].year]
                uniqueYears == SortNumbers(Distinct(years))
                yearColors(year) ==
                    colorPalette[((IndexOf(uniqueYears, year) - 1)
                                    % Len(colorPalette)) + 1]
            IN  [i \in 1..Len(years) |-> yearColors(years[i])]
      [] mode = "author" ->
            LET authors == [i \in 1..Len(endpoints) |-> endpoints[i].author]
                uniqueAuthors == SortStrings(Distinct(authors))
                authorColors(author) ==
                    colorPalette[((IndexOf(uniqueAuthors, author) - 1)
                                    % Len(colorPalette)) + 1]
            IN  [i \in 1..Len(authors) |-> authorColors(authors[i])]
      [] OTHER -> <<>>

\* `${trophicGroup} - ${species}`
Label(trophicGroup, species) == trophicGroup \o <<" ", "-", " ">> \o species

\* showlegend switched on for every series
isFirstSpeciesAlways(species, sortedSpecies) == TRUE

\* species === sortedSpecies[0]
isFirstSpecies(species, sortedSpecies) == species = sortedSpecies[1]

\* ec10eqValues with the values below the axis floor raised to it
ec10eqValuesClamped(endpoints) ==
    [i \in 1..Len(endpoints) |->
        MathMax(<<endpoints[i].EC10eq, Num(1, -10)>>)]

\* ec10eqValues: endpoint.EC10eq pushed for every endpoint of the species
ec10eqValues(endpoints) ==
    [i \in 1..Len(endpoints) |-> endpoints[i].EC10eq]

\* the symbol looked up by the group name as given, not lower-cased
symbolCaseSensitive(trophicGroup) ==
    LookupOr(TROPHIC_GROUP_SYMBOLS, trophicGroup, "circle")

\* TROPHIC_GROUP_SYMBOLS[trophicGroup.toLowerCase()] || "circle"
symbol(trophicGroup) ==
    LookupOr(TROPHIC_GROUP_SYMBOLS, toLowerCase(trophicGroup), "circle")

\* the trace pushed for one species of one trophic group
Trace(trophicGroup, species, sortedSpecies, endpoints, mode) ==
    [x |-> [i \in 1..Len(endpoints) |-> Label(trophicGroup, species)],
     y |-> ec10eqValues(endpoints),
     mode |-> "markers",
     name |-> Capitalized(trophicGroup),
     type |-> "scatter",
     marker |-> [color |-> markerColors(endpoints, trophicGroup, mode),
                 symbol |-> symbol(trophicGroup),
                 size |-> 10],
     customdata |-> [i \in 1..Len(endpoints) |->
                        <<endpoints[i].test_id, endpoints[i].year,
                          endpoints[i].author>>],
     legendgroup |-> trophicGroup,
     showlegend |-> isFirstSpecies(species, sortedSpecies)]

\* numSpecies counted per trophic group, a species of two groups twice
numSpeciesPerGroup(trophic_groups) ==
    Len(Flatten([i \in 1..Len(trophic_groups) |->
                    Keys(trophic_groups[i].value)]))

\* allSpecies.size: the species names added to one Set over all groups
numSpecies(trophic_groups) ==
    Cardinality(UNION {Range(Keys(trophic_groups[i].value)) :
                          i \in 1..Len(trophic_groups)})

createEC10eqPlotFromData(input, mode) ==
    LET data == convertToDetailed(input)
        trophic_groups == data.trophic_groups
        sortedTrophicGroups == SortStrings(Keys(trophic_groups))
        sortedSpecies(tg) == SortStrings(Keys(Lookup(trophic_groups, tg)))
        groupTraces(tg) ==
            [j \in 1..Len(sortedSpecies(tg)) |->
                Trace(tg, sortedSpecies(tg)[j], sortedSpecies(tg),
                      Lookup(Lookup(trophic_groups, tg), sortedSpecies(tg)[j]),
                      mode)]
        groupLabels(tg) ==
            [j \in 1..Len(sortedSpecies(tg)) |->
                Label(tg, sortedSpecies(tg)[j])]
        traces == Flatten([i \in 1..Len(sortedTrophicGroups) |->
                              groupTraces(sortedTrophicGroups[i])])
        uniqueCombinations ==
            Flatten([i \in 1..Len(sortedTrophicGroups) |->
                        groupLabels(sortedTrophicGroups[i])])
        numEndpoints ==
            Len(Flatten([i \in 1..Len(trophic_groups) |->
                    Flatten([j \in 1..Len(trophic_groups[i].value) |->
                                trophic_groups[i].value[j].value])]))
        allEC10Values == Flatten([i \in 1..Len(traces) |-> traces[i].y])
        minVal == MathMin(allEC10Values)
        maxVal == MathMax(allEC10Values)
        minPower == FloorLog10(MathMax(<<minVal, Num(1, -10)>>))
        maxPower == CeilLog10(maxVal)
    IN  [data |-> traces,
         layout |->
            [title |->
                [text |-> [coloredBy |-> IF mode # "trophic_group"
                                         THEN mode ELSE "",
                           cas |-> data.cas,
                           chemical_name |-> data.chemical_name,
                           numTrophicGroups |-> Len(sortedTrophicGroups),
                           numSpecies |-> numSpecies(trophic_groups),
                           numEndpoints |-> numEndpoints],
                 xanchor |-> "center"],
             xaxis |->
                [title |-> "Trophic Group - Species",
                 tickmode |-> "array",
                 tickvals |-> uniqueCombinations,
                 ticktext |-> [i \in 1..Len(uniqueCombinations) |->
                     Split(uniqueCombinations[i], <<" ", "-", " ">>)[2]],
                 categoryorder |-> "category ascending"],
             yaxis |->
                [title |-> "EC10eq (mg/L) - Log Scale",
                 type |-> "log",
                 tickmode |-> "array",
                 tickvals |-> TickValues(minPower, maxPower),
                 tickformat |-> ".0e"],
             legend |->
                [title |-> "Trophic Group",
                 orientation |-> "v",
                 yanchor |-> "top",
                 y |-> 1,
                 xanchor |-> "left",
                 x |-> IF mode = "trophic_group" THEN "1.01" ELSE "1.15"],
             margin |->
                [l |-> 80,
                 r |-> IF mode = "year" THEN 250 ELSE 200,
                 t |-> 120,
                 b |-> 150]],
         config |-> "undefined"]

(***************************************************************************)
(* The datasets a server may answer with: up to MaxEndpoints endpoint      *)
(* records in the flat form, or the object a server builds from up to      *)
(* MaxEndpoints rows in the nested form (a row adds an observation, a      *)
(* trophic group without species or a species without observations).       *)
(***************************************************************************)
MaxEndpoints == 3

Danio == <<"D", "a", "n", "i", "o">>
Salmo == <<"S", "a", "l", "m", "o">>
Lee == <<"L", "e", "e">>
Kim == <<"K", "i", "m">>

Observations ==
    { [EC10eq |-> Num(3, -3), test_id |-> 1, year |-> 1999, author |-> Lee],
      [EC10eq |-> Num(25, 1), test_id |-> 2, year |-> 2001, author |-> Kim],
      [EC10eq |-> Num(0, 0), test_id |-> 3, year |-> 2001, author |-> Lee] }

GroupSpeciesPairs == { <<algae, Danio>>, <<fish, Danio>>, <<fish, Salmo>> }

EndpointRecords ==
    { [trophic_group |-> p[1], species |-> p[2], EC10eq |-> o.EC10eq,
       test_id |-> o.test_id, year |-> o.year, author |-> o.author] :
        p \in GroupSpeciesPairs, o \in Observations }

NestedRows ==
    { [row |-> "endpoint", trophic_group |-> e.trophic_group,
       species |-> e.species, endpoint |-> e] : e \in EndpointRecords }
    \cup { [row |-> "group", trophic_group |-> algae],
           [row |-> "species", trophic_group |-> fish, species |-> Salmo] }

SeqsUpTo(S, n) == UNION { [1..k -> S] : k \in 0..n }

Reverse(seq) == [i \in 1..Len(seq) |-> seq[Len(seq) + 1 - i]]

\* the nested object holding the rows: groups and species keyed in the
\* order given by their first row, observations in row order
NestedObject(rows, reversedKeys) ==
    LET ordered(keys) == IF reversedKeys THEN Reverse(keys) ELSE keys
        inGroup(g) ==
            SelectSeq(rows, LAMBDA r : r.row # "group" /\ r.trophic_group = g)
        observations(g, sp) ==
            LET hits == SelectSeq(rows, LAMBDA r :
                            /\ r.row = "endpoint"
                            /\ r.trophic_group = g
                            /\ r.species = sp)
            IN  [i \in 1..Len(hits) |->
                    [EC10eq |-> hits[i].endpoint.EC10eq,
                     test_id |-> hits[i].endpoint.test_id,
                     year |-> hits[i].endpoint.year,
                     author |-> hits[i].endpoint.author]]
        speciesOf(g) ==
            ordered(Distinct([i \in 1..Len(inGroup(g)) |->
                                 inGroup(g)[i].species]))
        groups ==
            ordered(Distinct([i \in 1..Len(rows) |-> rows[i].trophic_group]))
    IN  [i \in 1..Len(groups) |->
            [key |-> groups[i],
             value |-> [j \in 1..Len(speciesOf(groups[i])) |->
                          [key |-> speciesOf(groups[i])[j],
                           value |-> observations(groups[i],
                                                  speciesOf(groups[i])[j])]]]]

SubstanceCas == "50-00-0"
SubstanceName == "Formaldehyde"

FlatDataset(endpoints) ==
    [cas |-> SubstanceCas, chemical_name |-> SubstanceName,
     endpoints |-> endpoints]

NestedDataset(groups) ==
    [cas |-> SubstanceCas, chemical_name |-> SubstanceName,
     trophic_groups |-> groups]

\* the nested form of a flat dataset: its records grouped by trophic group
\* then species
GroupedForm(dataset, reversedKeys) ==
    NestedDataset(NestedObject(
        [i \in 1..Len(dataset.endpoints) |->
            [row |-> "endpoint",
             trophic_group |-> dataset.endpoints[i].trophic_group,
             species |-> dataset.endpoints[i].species,
             endpoint |-> dataset.endpoints[i]]],
        reversedKeys))

Datasets ==
    { FlatDataset(eps) : eps \in SeqsUpTo(EndpointRecords, MaxEndpoints) }
    \cup { NestedDataset(NestedObject(rows, FALSE)) :
              rows \in SeqsUpTo(NestedRows, MaxEndpoints) }

ColorModes == {"trophic_group", "year", "author"}

BuilderInit ==
    /\ ec10eqData \in Datasets
    /\ colorBy = "trophic_group"
    /\ plotResult = NoResult
    /\ component = "none"
    /\ source = Undefined
    /\ queryStatus = "idle"
    /\ plotData = Undefined
    /\ windowPlotly = FALSE
    /\ plotlyLoaded = FALSE
    /\ effectPending = FALSE
    /\ chart = NoChart
    /\ rendererCalls = <<>>
    /\ resizeListeners = 0
    /\ effectCleanup = FALSE
    /\ consoleErrors = 0
    /\ payload = Undefined
    /\ accepted = "unknown"
    /\ mounted = FALSE
    /\ selectedCas = <<>>
    /\ queries = <<>>
    /\ fetchCount = 0
    /\ detachedHandles = 0
    /\ effectCalls = <<>>
    /\ SelectIdle /\ InfoIdle /\ ApiIdle

\* a caller builds the chart description of the dataset in one colour mode
CreatePlot ==
    /\ plotResult = NoResult
    /\ \E mode \in ColorModes :
          /\ colorBy' = mode
          /\ plotResult' = createEC10eqPlotFromData(ec10eqData, mode)
    /\ UNCHANGED ec10eqData
    /\ UNCHANGED renderVars
    /\ UNCHANGED classifyVars
    /\ UNCHANGED uiVars
    /\ UNCHANGED lifeVars

BuilderNext == CreatePlot

BuilderSpec == BuilderInit /\ [][BuilderNext]_vars

(***************************************************************************)
(* Datasets that exercise the styling: group names inside and outside the  *)
(* lookup tables and in capitals, species names that contain " - ", and    *)
(* one species with up to MaxPoints observations whose years repeat, come  *)
(* in any order and differ in their number of digits.                      *)
(***************************************************************************)
MaxPoints == 12
YearSpan == 12

Fish == <<"F", "i", "s", "h">>
crab == <<"c", "r", "a", "b">>
DanioSub == <<"D", "a", "n", "i", "o", " ", "-", " ", "a">>

StyleGroups == {algae, fish, Fish, crab, plants, molluscs}
StyleSpecies == {Danio, Salmo, DanioSub}
YearBases == {1990, 95}
YearSteps == {1, 5, 7}

\* n observations: the years walk through YearSpan consecutive years from
\* base in steps of step, the values start below zero, the authors alternate
StylePoints(base, step, n) ==
    [i \in 1..n |->
        [EC10eq |-> Num(i - 2, -1),
         test_id |-> i,
         year |-> base + ((i * step) % YearSpan),
         author |-> IF i % 2 = 0 THEN Lee ELSE Kim]]

StyleDatasets ==
    { NestedDataset(<<[key |-> g,
                       value |-> <<[key |-> sp,
                                    value |-> StylePoints(base, step, n)]>>]>>) :
        g \in StyleGroups, sp \in StyleSpecies, base \in YearBases,
        step \in YearSteps, n \in 0..MaxPoints }
    \cup
    { NestedDataset(<<[key |-> p[1],
                       value |-> <<[key |-> Salmo,
                                    value |-> StylePoints(1990, 1, 2)],
                                   [key |-> Danio,
                                    value |-> StylePoints(1990, 5, 3)]>>],
                      [key |-> p[2],
                       value |-> <<[key |-> Danio,
                                    value |-> StylePoints(95, 7, 3)]>>]>>) :
        p \in {q \in StyleGroups \X StyleGroups : q[1] # q[2]} }

StyleInit ==
    /\ ec10eqData \in StyleDatasets
    /\ colorBy = "trophic_group"
    /\ plotResult = NoResult
    /\ component = "none"
    /\ source = Undefined
    /\ queryStatus = "idle"
    /\ plotData = Undefined
    /\ windowPlotly = FALSE
    /\ plotlyLoaded = FALSE
    /\ effectPending = FALSE
    /\ chart = NoChart
    /\ rendererCalls = <<>>
    /\ resizeListeners = 0
    /\ effectCleanup = FALSE
    /\ consoleErrors = 0
    /\ payload = Undefined
    /\ accepted = "unknown"
    /\ mounted = FALSE
    /\ selectedCas = <<>>
    /\ queries = <<>>
    /\ fetchCount = 0
    /\ detachedHandles = 0
    /\ effectCalls = <<>>
    /\ SelectIdle /\ InfoIdle /\ ApiIdle

StyleSpec == StyleInit /\ [][BuilderNext]_vars

(***************************************************************************)
(* Properties of createEC10eqPlotFromData.                                 *)
(***************************************************************************)
Built == plotResult # NoResult
IsFlat(dataset) == "endpoints" \in DOMAIN dataset

\* the trophic groups, the (trophic group, species) pairs and the
\* observations of a dataset, read off its wire form
DatasetGroups(dataset) ==
    IF IsFlat(dataset)
    THEN {dataset.endpoints[i].trophic_group :
             i \in 1..Len(dataset.endpoints)}
    ELSE Range(Keys(dataset.trophic_groups))

DatasetPairs(dataset) ==
    IF IsFlat(dataset)
    THEN {<<dataset.endpoints[i].trophic_group, dataset.endpoints[i].species>> :
             i \in 1..Len(dataset.endpoints)}
    ELSE UNION {{<<dataset.trophic_groups[i].key,
                   dataset.trophic_groups[i].value[j].key>> :
                    j \in 1..Len(dataset.trophic_groups[i].value)} :
                  i \in 1..Len(dataset.trophic_groups)}

PairObservations(dataset, pair) ==
    IF IsFlat(dataset)
    THEN LET hits == SelectSeq(dataset.endpoints, LAMBDA e :
                        e.trophic_group = pair[1] /\ e.species = pair[2])
         IN  [i \in 1..Len(hits) |->
                [EC10eq |-> hits[i].EC10eq, test_id |-> hits[i].test_id,
                 year |-> hits[i].year, author |-> hits[i].author]]
    ELSE Lookup(Lookup(dataset.trophic_groups, pair[1]), pair[2])

ObservationCount(dataset) ==
    IF IsFlat(dataset) THEN Len(dataset.endpoints)
    ELSE Len(Flatten([i \in 1..Len(dataset.trophic_groups) |->
            Flatten([j \in 1..Len(dataset.trophic_groups[i].value) |->
                        dataset.trophic_groups[i].value[j].value])]))

SpeciesOfGroup(dataset, g) ==
    {pair[2] : pair \in {q \in DatasetPairs(dataset) : q[1] = g}}

\* (group, species) pairs ordered by group, then by species
PairLess(p, q) ==
    StrLess(p[1], q[1]) \/ (p[1] = q[1] /\ StrLess(p[2], q[2]))

Series == plotResult.data
Categories == plotResult.layout.xaxis.tickvals

\* the index of the series built for a (group, species) pair
SeriesIndices(pair) ==
    {i \in 1..Len(Categories) : Categories[i] = Label(pair[1], pair[2])}

\* C4: for a dataset without trophic groups the builder returns an explicit
\* empty-result signal, not a chart description (an object with a series
\* list and a layout).
C4_EmptyDatasetSignalled ==
    (Built /\ DatasetGroups(ec10eqData) = {})
        => ~({"data", "layout"} \subseteq DOMAIN plotResult)

\* C5: in every colour mode there is one series per (trophic group,
\* species) pair of the dataset, and its x, y, customdata and marker.color
\* arrays have one entry per observation of the pair, y and customdata in
\* source order.
C5_OneSeriesPerPair ==
    Built =>
        /\ Len(Series) = Cardinality(DatasetPairs(ec10eqData))
        /\ Len(Categories) = Len(Series)
        /\ \A pair \in DatasetPairs(ec10eqData) :
              /\ Cardinality(SeriesIndices(pair)) = 1
              /\ \A i \in SeriesIndices(pair) :
                    LET obs == PairObservations(ec10eqData, pair)
                    IN  /\ Len(Series[i].x) = Len(obs)
                        /\ Len(Series[i].y) = Len(obs)
                        /\ Len(Series[i].customdata) = Len(obs)
                        /\ Len(Series[i].marker.color) = Len(obs)
                        /\ \A k \in 1..Len(obs) :
                              /\ Series[i].x[k] = Label(pair[1], pair[2])
                              /\ Series[i].y[k] = obs[k].EC10eq
                              /\ Series[i].customdata[k] =
                                    <<obs[k].test_id, obs[k].year,
                                      obs[k].author>>

\* C5 witness: a chart coloured by year with two series, one of them with
\* two observations of the same year
C5_Witness ==
    /\ Built
    /\ colorBy = "year"
    /\ Len(Series) = 2
    /\ \E i \in 1..Len(Series) :
          /\ Len(Series[i].y) = 2
          /\ Series[i].customdata[1][2] = Series[i].customdata[2][2]

\* the dataset with the insertion order of its records, groups and species
\* reversed
ReorderedDataset(dataset) ==
    IF IsFlat(dataset) THEN FlatDataset(Reverse(dataset.endpoints))
    ELSE NestedDataset(Reverse(
            [i \in 1..Len(dataset.trophic_groups) |->
                [key |-> dataset.trophic_groups[i].key,
                 value |-> Reverse(dataset.trophic_groups[i].value)]]))

\* C6: the series and the x-axis categories are ordered by trophic group
\* ascending and, within a group, by species ascending, and the order does
\* not change when the dataset's records, groups and species are given in
\* another order.
C6_CategoriesSorted ==
    Built =>
        /\ Len(Categories) = Cardinality(DatasetPairs(ec10eqData))
        /\ Len(Series) = Len(Categories)
        /\ \A i \in 1..Len(Categories) :
              \E p \in DatasetPairs(ec10eqData) :
                 /\ Categories[i] = Label(p[1], p[2])
                 /\ Series[i].legendgroup = p[1]
                 /\ \A k \in 1..Len(Series[i].x) :
                       Series[i].x[k] = Label(p[1], p[2])
                 /\ \A j \in (i + 1)..Len(Categories) :
                       \E q \in DatasetPairs(ec10eqData) :
                          /\ Categories[j] = Label(q[1], q[2])
                          /\ PairLess(p, q)
        /\ LET other == createEC10eqPlotFromData(
                            ReorderedDataset(ec10eqData), colorBy)
           IN  /\ other.layout.xaxis.tickvals = Categories
               /\ [i \in 1..Len(other.data) |-> other.data[i].legendgroup]
                     = [i \in 1..Len(Series) |-> Series[i].legendgroup]

\* C6 witness: a flat dataset that lists a fish record before an algae
\* record, charted with the algae category first
C6_Witness ==
    /\ Built
    /\ IsFlat(ec10eqData)
    /\ Len(ec10eqData.endpoints) >= 2
    /\ ec10eqData.endpoints[1].trophic_group = fish
    /\ ec10eqData.endpoints[2].trophic_group = algae
    /\ Categories[1] = Label(algae, Danio)
    /\ Categories[2] = Label(fish, ec10eqData.endpoints[1].species)

\* the colour key of point k of a series in the active colour mode, as the
\* string the colour map is keyed and sorted by
PointKey(series, k) ==
    IF colorBy = "year" THEN NatToString(series.customdata[k][2])
    ELSE series.customdata[k][3]

SeriesKeys(series) == {PointKey(series, k) : k \in 1..Len(series.y)}

\* C7 as stated: in byYear and byAuthor mode two observations of the same
\* trophic group with the same year (author) have the same colour, also
\* when they belong to different species of the group.
C7_SameColourAcrossGroup ==
    (Built /\ colorBy \in {"year", "author"}) =>
        \A i, j \in 1..Len(Series) :
            Series[i].legendgroup = Series[j].legendgroup =>
                \A k \in 1..Len(Series[i].y), l \in 1..Len(Series[j].y) :
                    PointKey(Series[i], k) = PointKey(Series[j], l)
                        => Series[i].marker.color[k] = Series[j].marker.color[l]

\* C7 amended: in byYear and byAuthor mode the key-to-colour map of a
\* series is built from the distinct years (authors) of that series' own
\* observations: a point's colour is the palette entry at the rank of its
\* key among the sorted distinct keys of its (trophic group, species)
\* series, so two observations of one series with the same year (author)
\* have the same colour.
C7_ColourMapPerSeries ==
    (Built /\ colorBy \in {"year", "author"}) =>
        \A i \in 1..Len(Series) :
            \A k \in 1..Len(Series[i].y) :
                LET before == {q \in SeriesKeys(Series[i]) :
                                  StrLess(q, PointKey(Series[i], k))}
                IN  /\ Series[i].marker.color[k] =
                          colorPalette[(Cardinality(before)
                                          % Len(colorPalette)) + 1]
                    /\ \A l \in 1..Len(Series[i].y) :
                          PointKey(Series[i], k) = PointKey(Series[i], l)
                             => Series[i].marker.color[k]
                                   = Series[i].marker.color[l]

\* C7 witness: a series coloured by year or author that holds two points
\* with the same key and a third with another key
C7_Witness ==
    /\ Built
    /\ colorBy \in {"year", "author"}
    /\ \E i \in 1..Len(Series) :
          /\ Len(Series[i].y) = 3
          /\ \E k, l \in 1..3 :
                /\ k < l
                /\ PointKey(Series[i], k) = PointKey(Series[i], l)
                /\ Series[i].marker.color[k] = Series[i].marker.color[l]
          /\ Cardinality(SeriesKeys(Series[i])) = 2

\* the series of a trophic group that show in the legend
LegendSeries(g) ==
    {i \in 1..Len(Series) : Series[i].legendgroup = g /\ Series[i].showlegend}

\* the species of a group that sorts before all its other species
FirstSpecies(dataset, g) ==
    CHOOSE sp \in SpeciesOfGroup(dataset, g) :
        \A other \in SpeciesOfGroup(dataset, g) \ {sp} : StrLess(sp, other)

\* every series built for a group carries the group name as legendgroup
LegendGroupsMatch ==
    \A pair \in DatasetPairs(ec10eqData) :
        \A i \in SeriesIndices(pair) : Series[i].legendgroup = pair[1]

\* C8 as stated: every trophic group of the dataset has exactly one series
\* with showlegend = true, the series of its alphabetically first species,
\* and all series of a group carry the group name as legendgroup.
C8_OneLegendEntryPerGroup ==
    Built =>
        /\ LegendGroupsMatch
        /\ \A g \in DatasetGroups(ec10eqData) :
              /\ Cardinality(LegendSeries(g)) = 1
              /\ LegendSeries(g) =
                    SeriesIndices(<<g, FirstSpecies(ec10eqData, g)>>)

\* C8 amended: every trophic group of the dataset that has at least one
\* species has exactly one series with showlegend = true, the series of
\* its alphabetically first species, and all series of a group carry the
\* group name as legendgroup; a group without species has no series and no
\* legend entry.
C8_OneLegendEntryPerNonEmptyGroup ==
    Built =>
        /\ LegendGroupsMatch
        /\ \A g \in DatasetGroups(ec10eqData) :
              IF SpeciesOfGroup(ec10eqData, g) = {}
              THEN \A i \in 1..Len(Series) : Series[i].legendgroup # g
              ELSE /\ Cardinality(LegendSeries(g)) = 1
                   /\ LegendSeries(g) =
                         SeriesIndices(<<g, FirstSpecies(ec10eqData, g)>>)

\* C8 witness: a dataset whose fish group has two species, with the legend
\* entry on the Danio series only
C8_Witness ==
    /\ Built
    /\ SpeciesOfGroup(ec10eqData, fish) = {Danio, Salmo}
    /\ \E i, j \in 1..Len(Series) :
          /\ Categories[i] = Label(fish, Danio)
          /\ Categories[j] = Label(fish, Salmo)
          /\ Series[i].showlegend
          /\ ~Series[j].showlegend

\* all observation values of a dataset
DatasetValues(dataset) ==
    UNION {{PairObservations(dataset, pair)[k].EC10eq :
               k \in 1..Len(PairObservations(dataset, pair))} :
             pair \in DatasetPairs(dataset)}

Epsilon == Num(1, -10)

\* C9: for a dataset with at least one observation, values of any sign,
\* layout.yaxis.tickvals is a non-empty run of consecutive powers of ten
\* whose first tick is the largest power of ten <= the minimum value
\* (clamped to 1e-10) and whose last tick is the smallest power of ten >=
\* the maximum value.
C9_TicksBracketData ==
    (Built /\ ObservationCount(ec10eqData) >= 1) =>
        LET ticks == plotResult.layout.yaxis.tickvals
            values == DatasetValues(ec10eqData)
            lowest == CHOOSE v \in values :
                          \A w \in values : ~NumLess(w, v)
            highest == CHOOSE v \in values :
                          \A w \in values : ~NumLess(v, w)
            clamped == IF NumLess(lowest, Epsilon) THEN Epsilon ELSE lowest
        IN  /\ Len(ticks) >= 1
            /\ \A i \in 1..Len(ticks) : ticks[i].kind = "num" /\ ticks[i].m = 1
            /\ \A i \in 1..(Len(ticks) - 1) : ticks[i + 1].e = ticks[i].e + 1
            /\ ~NumLess(clamped, ticks[1])
            /\ NumLess(clamped, Num(1, ticks[1].e + 1))
            /\ ~NumLess(ticks[Len(ticks)], highest)
            /\ NumLess(Num(1, ticks[Len(ticks)].e - 1), highest)

\* C10: on a flat dataset the builder returns the chart description it
\* returns on the nested dataset that groups the same records by trophic
\* group then species (whatever the key order of that nested object).
C10_FlatEqualsNested ==
    (Built /\ IsFlat(ec10eqData)) =>
        /\ plotResult =
              createEC10eqPlotFromData(GroupedForm(ec10eqData, FALSE), colorBy)
        /\ plotResult =
              createEC10eqPlotFromData(GroupedForm(ec10eqData, TRUE), colorBy)

\* C10 witness: a flat dataset with two different observations of one
\* species separated by a record of another species
C10_Witness ==
    /\ Built
    /\ IsFlat(ec10eqData)
    /\ Len(ec10eqData.endpoints) = 3
    /\ ec10eqData.endpoints[1].species = ec10eqData.endpoints[3].species
    /\ ec10eqData.endpoints[1].trophic_group
          = ec10eqData.endpoints[3].trophic_group
    /\ ec10eqData.endpoints[1].EC10eq # ec10eqData.endpoints[3].EC10eq
    /\ ec10eqData.endpoints[2].trophic_group
          # ec10eqData.endpoints[1].trophic_group
    /\ Len(Series) = 2

\* the colour of every point of series i, one per y-value
ColoursAligned(i) == Len(Series[i].marker.color) = Len(Series[i].y)

\* C21: in byYear mode the distinct years of a series' colour map are
\* ranked in ascending numeric order, the year of rank k gets palette entry
\* k mod 10 of the 10-colour palette, and every point has the colour of its
\* own year, one colour per y-value.
C21_YearsRankedNumerically ==
    (Built /\ colorBy = "year") =>
        /\ Len(colorPalette) = 10
        /\ \A i \in 1..Len(Series) :
              LET year(k) == Series[i].customdata[k][2]
                  years == {year(k) : k \in 1..Len(Series[i].y)}
                  rank(k) == Cardinality({yr \in years : yr < year(k)})
              IN  /\ ColoursAligned(i)
                  /\ \A k \in 1..Len(Series[i].y) :
                        Series[i].marker.color[k]
                           = colorPalette[(rank(k) % 10) + 1]

\* a group name that is in the lookup tables, whatever its capitals
KnownGroup(g) == toLowerCase(g) \in DOMAIN TROPHIC_GROUP_COLORS

\* C22: in byTrophicGroup mode every point of every series of a group has
\* the group's table colour, or "#000000" when the group is not in the
\* table; in all three colour modes the series' marker symbol is the
\* group's table symbol, or "circle" for an unknown group; all series of
\* one trophic group share one symbol and the symbol is the same in every
\* colour mode.  A group is looked up by its name whatever its capitals.
C22_GroupStyleFromTables ==
    Built =>
        /\ \A pair \in DatasetPairs(ec10eqData) :
              \A i \in SeriesIndices(pair) :
                 /\ Series[i].marker.symbol =
                       IF KnownGroup(pair[1])
                       THEN TROPHIC_GROUP_SYMBOLS[toLowerCase(pair[1])]
                       ELSE "circle"
                 /\ \A mode \in ColorModes :
                       createEC10eqPlotFromData(ec10eqData, mode)
                             .data[i].marker.symbol
                          = Series[i].marker.symbol
                 /\ colorBy = "trophic_group" =>
                       /\ ColoursAligned(i)
                       /\ \A k \in 1..Len(Series[i].y) :
                             Series[i].marker.color[k] =
                                IF KnownGroup(pair[1])
                                THEN TROPHIC_GROUP_COLORS[toLowerCase(pair[1])]
                                ELSE "#000000"
        /\ \A i, j \in 1..Len(Series) :
              Series[i].legendgroup = Series[j].legendgroup
                 => Series[i].marker.symbol = Series[j].marker.symbol

\* C22 witness: a dataset coloured by trophic group whose group Fish has
\* two series, both with the fish symbol and colour, and whose group crab
\* is in no table and gets the fallbacks
C22_Witness ==
    /\ Built
    /\ colorBy = "trophic_group"
    /\ Len(Series) = 3
    /\ Series[1].legendgroup = Fish /\ Series[2].legendgroup = Fish
    /\ Series[1].marker.symbol = "triangle-up"
    /\ Series[2].marker.symbol = "triangle-up"
    /\ Series[2].marker.color = <<"#ff7f0e", "#ff7f0e">>
    /\ Series[3].legendgroup = crab
    /\ Series[3].marker.symbol = "circle"
    /\ Series[3].marker.color = <<"#000000", "#000000", "#000000">>

\* C23: the three statistics in the chart title are the number of trophic
\* groups of the dataset, the number of distinct species names over all
\* groups, and the total number of observations, which is also the sum of
\* the point counts of all series.
C23_TitleStatistics ==
    Built =>
        LET text == plotResult.layout.title.text
        IN  /\ text.numTrophicGroups = Cardinality(DatasetGroups(ec10eqData))
            /\ text.numSpecies =
                  Cardinality({pair[2] : pair \in DatasetPairs(ec10eqData)})
            /\ text.numEndpoints = ObservationCount(ec10eqData)
            /\ text.numEndpoints =
                  Len(Flatten([i \in 1..Len(Series) |-> Series[i].y]))

\* C23 witness: a flat dataset of three observations of the species Danio,
\* which occurs in the groups algae and fish and counts once
C23_Witness ==
    /\ Built
    /\ IsFlat(ec10eqData)
    /\ DatasetPairs(ec10eqData) = {<<algae, Danio>>, <<fish, Danio>>}
    /\ plotResult.layout.title.text.numTrophicGroups = 2
    /\ plotResult.layout.title.text.numSpecies = 1
    /\ plotResult.layout.title.text.numEndpoints = 3

\* C24: an observation whose value is <= 0 is in its series' y-values with
\* its original value at its original position, with its tool-tip payload
\* and a colour, and the series has as many points as the species has
\* observations.
C24_NonPositiveValuesKept ==
    Built =>
        \A pair \in DatasetPairs(ec10eqData) :
            LET obs == PairObservations(ec10eqData, pair)
            IN  \A i \in SeriesIndices(pair) :
                   /\ Len(Series[i].y) = Len(obs)
                   /\ Len(Series[i].customdata) = Len(obs)
                   /\ ColoursAligned(i)
                   /\ \A k \in 1..Len(obs) :
                         ~NumLess(Num(0, 0), obs[k].EC10eq) =>
                            /\ Series[i].y[k] = obs[k].EC10eq
                            /\ Series[i].customdata[k] =
                                  <<obs[k].test_id, obs[k].year,
                                    obs[k].author>>

\* C24 witness: a series that starts with a negative value and a zero,
\* while the ticks start at the axis floor
C24_Witness ==
    /\ Built
    /\ Len(Series) = 1
    /\ Len(Series[1].y) = 4
    /\ Series[1].y[1] = Num(-1, -1)
    /\ Series[1].y[2] = Num(0, -1)
    /\ plotResult.layout.yaxis.tickvals[1] = Num(1, -10)

\* C25: for every (trophic group, species) pair, at the same index the
\* x-axis tick value is the category key "<group> - <species>" and the
\* visible tick text is the species name, whatever characters the names
\* contain.
C25_TickTextIsSpecies ==
    Built =>
        /\ Len(plotResult.layout.xaxis.ticktext) = Len(Categories)
        /\ \A pair \in DatasetPairs(ec10eqData) :
              /\ SeriesIndices(pair) # {}
              /\ \A i \in SeriesIndices(pair) :
                    plotResult.layout.xaxis.ticktext[i] = pair[2]

\* C26: the legend title names the subject of the active colour mode: the
\* trophic group in byTrophicGroup mode, and in byYear and byAuthor mode a
\* title of its own, not the one of another mode.
C26_LegendTitleNamesSubject ==
    Built =>
        LET legendTitle(mode) ==
                createEC10eqPlotFromData(ec10eqData, mode).layout.legend.title
        IN  /\ legendTitle("trophic_group") = "Trophic Group"
            /\ \A mode \in ColorModes \ {colorBy} :
                  plotResult.layout.legend.title # legendTitle(mode)

(***************************************************************************)
(* isEC10eqData: telling a dataset payload from a chart description.       *)
(***************************************************************************)

\* 'key' in data
In(key, data) == data.kind = "object" /\ key \in DOMAIN data.fields

\* typeof data === 'object' on a truthy value
IsObjectType(data) == data.kind \in {"object", "array"}

\* isEC10eqData without the test that excludes chart descriptions
isEC10eqDataIgnoringPlotly(data) ==
    /\ Truthy(data)
    /\ IsObjectType(data)
    /\ In("cas", data)
    /\ (In("trophic_groups", data) \/ In("endpoints", data))

isEC10eqData(data) ==
    /\ Truthy(data)
    /\ IsObjectType(data)
    /\ In("cas", data)
    /\ (In("trophic_groups", data) \/ In("endpoints", data))
    /\ ~(In("data", data) /\ In("layout", data))

\* the payloads a caller may hand over: values that are no object, and the
\* objects with any subset of the keys of the two wire formats
PayloadKeys ==
    {"cas", "chemical_name", "trophic_groups", "endpoints", "data", "layout"}

PayloadValue(key) ==
    CASE key = "cas" -> Scalar("50-00-0")
      [] key = "chemical_name" -> Null
      [] key = "trophic_groups" -> Obj(EmptyFields)
      [] key = "endpoints" -> Arr(<<>>)
      [] key = "data" -> Arr(<<>>)
      [] OTHER -> Obj(EmptyFields)

Payloads ==
    {Undefined, Null, Scalar("0"), Scalar("text"), Arr(<<>>)}
        \cup {Obj([key \in keys |-> PayloadValue(key)]) :
                 keys \in SUBSET PayloadKeys}

ClassifyInit ==
    /\ payload \in Payloads
    /\ accepted = "unknown"
    /\ ec10eqData = NoResult
    /\ colorBy = "trophic_group"
    /\ plotResult = NoResult
    /\ component = "none"
    /\ source = Undefined
    /\ queryStatus = "idle"
    /\ plotData = Undefined
    /\ windowPlotly = FALSE
    /\ plotlyLoaded = FALSE
    /\ effectPending = FALSE
    /\ chart = NoChart
    /\ rendererCalls = <<>>
    /\ resizeListeners = 0
    /\ effectCleanup = FALSE
    /\ consoleErrors = 0
    /\ mounted = FALSE
    /\ selectedCas = <<>>
    /\ queries = <<>>
    /\ fetchCount = 0
    /\ detachedHandles = 0
    /\ effectCalls = <<>>
    /\ SelectIdle /\ InfoIdle /\ ApiIdle

\* a caller asks whether the payload is a dataset
ClassifyPayload ==
    /\ accepted = "unknown"
    /\ accepted' = IF isEC10eqData(payload) THEN "yes" ELSE "no"
    /\ UNCHANGED payload
    /\ UNCHANGED renderVars
    /\ UNCHANGED builderVars
    /\ UNCHANGED lifeVars
    /\ UNCHANGED uiVars

ClassifyNext == ClassifyPayload

ClassifySpec == ClassifyInit /\ [][ClassifyNext]_vars

Classified == accepted # "unknown"

\* a payload that has both a data key and a layout key
IsChartShaped(data) == In("data", data) /\ In("layout", data)

\* C11: every payload of the nested wire shape (cas and trophic_groups)
\* and of the flat wire shape (cas and endpoints) is accepted unless it has
\* both a data key and a layout key, and every payload that has both a data
\* key and a layout key is rejected.
C11_ShapesWithCasAccepted ==
    Classified =>
        /\ ( /\ In("cas", payload)
             /\ In("trophic_groups", payload) \/ In("endpoints", payload)
             /\ ~IsChartShaped(payload) )
              => accepted = "yes"
        /\ IsChartShaped(payload) => accepted = "no"

\* C11 witness: a flat dataset payload that also carries a data key (but no
\* layout key) has been accepted
C11_Witness ==
    /\ accepted = "yes"
    /\ In("endpoints", payload)
    /\ In("data", payload)

(***************************************************************************)
(* The substance selection of BenchmarkComparison.  A handler works on the *)
(* selectedCas of the render that created it: several clicks handled       *)
(* before the next render all start from the same rendered selection.      *)
(***************************************************************************)

\* the cas numbers of the cas list
SelectableCas == CasNumbers \cup {"D"}

\* the suggestions without the notAlreadySelected filter
getFilteredSuggestionsUnfiltered(rendered) == SelectableCas

\* getFilteredSuggestions: the cas list items that match the search term
\* and are not already selected (any item can match some term)
getFilteredSuggestions(rendered) ==
    {cas \in SelectableCas : cas \notin Range(rendered)}

\* what handleAddCas hands to setSelectedCas; nothing when three are selected
AddedSelection(rendered, pending, cas) ==
    IF Len(rendered) >= 3 THEN pending ELSE Append(rendered, cas)

\* what handleRemoveCas hands to setSelectedCas
RemainingSelection(rendered, cas) ==
    LET Kept(c) == c # cas IN SelectSeq(rendered, Kept)

SelectInit ==
    /\ component = "BenchmarkComparison"
    /\ mounted = TRUE
    /\ selectedCas = <<>>
    /\ SelectIdle /\ InfoIdle /\ ApiIdle
    /\ source = Undefined
    /\ queryStatus = "idle"
    /\ plotData = Undefined
    /\ windowPlotly = FALSE
    /\ plotlyLoaded = FALSE
    /\ effectPending = FALSE
    /\ chart = NoChart
    /\ rendererCalls = <<>>
    /\ resizeListeners = 0
    /\ effectCleanup = FALSE
    /\ consoleErrors = 0
    /\ ec10eqData = NoResult
    /\ colorBy = "trophic_group"
    /\ plotResult = NoResult
    /\ payload = Undefined
    /\ accepted = "unknown"
    /\ queries = <<>>
    /\ fetchCount = 0
    /\ detachedHandles = 0
    /\ effectCalls = <<>>

SelectFrame ==
    /\ UNCHANGED <<mounted, queries, fetchCount, detachedHandles, effectCalls>>
    /\ UNCHANGED renderVars
    /\ UNCHANGED builderVars
    /\ UNCHANGED classifyVars
    /\ UNCHANGED infoVars
    /\ UNCHANGED apiVars

\* a click on a suggestion button of the last render: the inputs are shown
\* while fewer than three substances are selected
SuggestionClicked ==
    /\ Len(renderedCas) < 3
    /\ \E cas \in getFilteredSuggestions(renderedCas) :
          selectedCas' = AddedSelection(renderedCas, selectedCas, cas)
    /\ UNCHANGED selectVars
    /\ SelectFrame

\* a click on the remove button of a selected substance of the last render
RemoveClicked ==
    /\ \E cas \in Range(renderedCas) :
          selectedCas' = RemainingSelection(renderedCas, cas)
    /\ UNCHANGED selectVars
    /\ SelectFrame

\* the component renders with the selectedCas set last
SelectRender ==
    /\ renderedCas # selectedCas
    /\ renderedCas' = selectedCas
    /\ comparisonEnabled' = Enabled(selectedCas)
    /\ UNCHANGED selectedCas
    /\ SelectFrame

SelectNext ==
    \/ SuggestionClicked
    \/ RemoveClicked
    \/ SelectRender

SelectSpec == SelectInit /\ [][SelectNext]_vars

NoCasTwice(selection) ==
    \A i, j \in DOMAIN selection : i # j => selection[i] # selection[j]

\* C30: after any sequence of add-substance and remove-substance actions,
\* several of them handled against the same rendered state included, the
\* selected list holds at most 3 CAS numbers and no CAS twice, and the
\* comparison request is enabled exactly while 2 or 3 substances are
\* selected.
C30_SelectionBounded ==
    /\ Len(selectedCas) <= 3 /\ NoCasTwice(selectedCas)
    /\ Len(renderedCas) <= 3 /\ NoCasTwice(renderedCas)
    /\ comparisonEnabled <=> Len(renderedCas) \in {2, 3}

\* C30 witness: three substances are rendered with the request enabled,
\* and a removal handled against that render has set a selection of two
C30_Witness ==
    /\ Len(renderedCas) = 3
    /\ comparisonEnabled
    /\ Len(selectedCas) = 2
    /\ Range(selectedCas) \subseteq Range(renderedCas)

(***************************************************************************)
(* apiFetch.  A message is the sequence of its words; an error is a record *)
(* of its class, its message and, for an ApiError, status and statusText.  *)
(***************************************************************************)

\* message.includes(needle): the needle's words occur in a row
includes(message, needle) ==
    \E i \in 0..(Len(message) - Len(needle)) :
        SubSeq(message, i + 1, i + Len(needle)) = needle

ErrorOf(type, message) == [type |-> type, message |-> message]

\* new ApiError(message, status, statusText)
ApiError(message, status, statusText) ==
    [type |-> "ApiError", message |-> message, status |-> status,
     statusText |-> statusText]

\* error instanceof Error
IsError(error) == error.type # "thrown value"

\* what fetch() can throw
FetchErrors ==
    { ErrorOf("TypeError", <<"Failed", "to", "fetch">>),
      ErrorOf("TypeError", <<"NetworkError", "when", "attempting", "to",
                             "fetch", "resource">>),
      ErrorOf("TypeError", <<"Failed", "to", "fetch", "CORS", "policy">>),
      ErrorOf("TypeError", <<"Load", "failed">>),
      ErrorOf("DOMException", <<"The", "operation", "was", "aborted">>),
      ErrorOf("thrown value", <<"boom">>) }

\* what response.json() does: the parsed value, or a rejection
ResponseBodies ==
    { [parse |-> "throws",
       error |-> ErrorOf("SyntaxError", <<"Unexpected", "token">>)],
      [parse |-> "throws",
       error |-> ErrorOf("TypeError", <<"Failed", "to", "fetch">>)] }
    \cup
    { [parse |-> "ok", value |-> v] :
        v \in { Null, Scalar("7"), Obj(EmptyFields),
                Obj([detail |-> Scalar("no such substance")]),
                Obj([message |-> Scalar("try later")]),
                Obj([detail |-> Scalar("no such substance"),
                     message |-> Scalar("try later")]),
                Obj([detail |-> Scalar(""), message |-> Scalar("try later")]),
                Obj([detail |-> Scalar("")]) } }

Statuses == {200, 204, 400, 401, 403, 404, 418, 500, 503}
StatusTexts == {"", "Status Text"}

FetchOutcomes ==
    { [kind |-> "throws", error |-> e] : e \in FetchErrors }
    \cup
    { [kind |-> "response", status |-> st, statusText |-> tx, body |-> b] :
        st \in Statuses, tx \in StatusTexts, b \in ResponseBodies }

\* response.ok
ok(response) == response.status >= 200 /\ response.status <= 299

\* the switch on response.status
DefaultErrorMessage(response) ==
    CASE response.status = 404 -> "Ressource non trouvée"
      [] response.status = 500 -> "Erreur serveur interne"
      [] response.status = 503 -> "Service temporairement indisponible"
      [] response.status = 400 -> "Requête invalide"
      [] response.status = 401 -> "Non autorisé"
      [] response.status = 403 -> "Accès interdit"
      [] OTHER -> <<"Erreur", response.status, response.statusText>>

\* the inner try: errorData.detail || errorData.message when one is truthy
\* (reading them off null throws inside the inner try, off another
\* primitive gives undefined: the default message stays in both cases)
errorMessage(response) ==
    IF response.body.parse # "ok" THEN DefaultErrorMessage(response)
    ELSE LET errorData == response.body.value
             detail == Prop(errorData, "detail")
             message == Prop(errorData, "message")
         IN  IF Truthy(detail) THEN detail.v
             ELSE IF Truthy(message) THEN message.v
             ELSE DefaultErrorMessage(response)

\* the try block: what it returns or throws
TryBlock(outcome) ==
    IF outcome.kind = "throws"
    THEN [kind |-> "throw", error |-> outcome.error]
    ELSE IF ~ok(outcome)
    THEN [kind |-> "throw",
          error |-> ApiError(errorMessage(outcome), outcome.status,
                             outcome.statusText)]
    ELSE IF outcome.body.parse # "ok"
    THEN [kind |-> "throw", error |-> outcome.body.error]
    ELSE [kind |-> "return", value |-> outcome.body.value]

\* the catch block with the unknown errors thrown on as they are
CatchBlockRethrowing(error) ==
    IF /\ error.type = "TypeError"
       /\ \/ includes(error.message, <<"Failed", "to", "fetch">>)
          \/ includes(error.message, <<"NetworkError">>)
          \/ includes(error.message, <<"fetch">>)
    THEN ApiError(IF \/ includes(error.message, <<"CORS">>)
                     \/ includes(error.message, <<"Access-Control">>)
                  THEN "Erreur CORS"
                  ELSE "Impossible de se connecter au serveur",
                  0, "Network Error")
    ELSE error

\* the catch block: what it throws
CatchBlock(error) ==
    IF /\ error.type = "TypeError"
       /\ \/ includes(error.message, <<"Failed", "to", "fetch">>)
          \/ includes(error.message, <<"NetworkError">>)
          \/ includes(error.message, <<"fetch">>)
    THEN ApiError(IF \/ includes(error.message, <<"CORS">>)
                     \/ includes(error.message, <<"Access-Control">>)
                  THEN "Erreur CORS"
                  ELSE "Impossible de se connecter au serveur",
                  0, "Network Error")
    ELSE IF error.type = "ApiError" THEN error
    ELSE ApiError(IF IsError(error) THEN error.message ELSE "Erreur inconnue",
                  0, "Unknown Error")

\* how the promise returned by apiFetch settles
apiFetch(outcome) ==
    LET attempt == TryBlock(outcome)
    IN  IF attempt.kind = "return"
        THEN [kind |-> "resolved", value |-> attempt.value]
        ELSE [kind |-> "rejected", error |-> CatchBlock(attempt.error)]

ApiInit ==
    /\ fetchOutcome \in FetchOutcomes
    /\ apiResult = NoResult
    /\ SelectIdle /\ InfoIdle
    /\ component = "none"
    /\ source = Undefined
    /\ queryStatus = "idle"
    /\ plotData = Undefined
    /\ windowPlotly = FALSE
    /\ plotlyLoaded = FALSE
    /\ effectPending = FALSE
    /\ chart = NoChart
    /\ rendererCalls = <<>>
    /\ resizeListeners = 0
    /\ effectCleanup = FALSE
    /\ consoleErrors = 0
    /\ ec10eqData = NoResult
    /\ colorBy = "trophic_group"
    /\ plotResult = NoResult
    /\ payload = Undefined
    /\ accepted = "unknown"
    /\ mounted = FALSE
    /\ selectedCas = <<>>
    /\ queries = <<>>
    /\ fetchCount = 0
    /\ detachedHandles = 0
    /\ effectCalls = <<>>

\* a caller awaits apiFetch(endpoint)
ApiFetchSettles ==
    /\ apiResult = NoResult
    /\ apiResult' = apiFetch(fetchOutcome)
    /\ UNCHANGED fetchOutcome
    /\ UNCHANGED renderVars
    /\ UNCHANGED builderVars
    /\ UNCHANGED classifyVars
    /\ UNCHANGED lifeVars
    /\ UNCHANGED selectVars
    /\ UNCHANGED infoVars

ApiNext == ApiFetchSettles

ApiSpec == ApiInit /\ [][ApiNext]_vars

Settled == apiResult # NoResult

\* a successful response whose body parses
Succeeds(outcome) ==
    /\ outcome.kind = "response"
    /\ outcome.status \in 200..299
    /\ outcome.body.parse = "ok"

\* the message the body of a non-OK response provides, if any
ProvidedMessage(outcome) ==
    IF outcome.body.parse # "ok" \/ outcome.body.value.kind # "object"
    THEN Undefined
    ELSE LET f == outcome.body.value.fields
             given(k) == k \in DOMAIN f /\ f[k] # Scalar("")
         IN  IF given("detail") THEN f["detail"]
             ELSE IF given("message") THEN f["message"]
             ELSE Undefined

\* C29: apiFetch resolves with the parsed JSON body of a successful
\* response, or rejects with an ApiError and with no other error type: for
\* a non-OK response the ApiError carries the response's status and
\* statusText and its message is the server's detail or message when the
\* error body provides one, else the per-status default; for network,
\* body-parse and unknown failures it carries status 0.
C29_ResolvesOrRejectsWithApiError ==
    Settled =>
        IF Succeeds(fetchOutcome)
        THEN apiResult = [kind |-> "resolved",
                          value |-> fetchOutcome.body.value]
        ELSE /\ apiResult.kind = "rejected"
             /\ apiResult.error.type = "ApiError"
             /\ IF fetchOutcome.kind = "response"
                      /\ fetchOutcome.status \notin 200..299
                THEN /\ apiResult.error.status = fetchOutcome.status
                     /\ apiResult.error.statusText = fetchOutcome.statusText
                     /\ apiResult.error.message =
                           IF ProvidedMessage(fetchOutcome) # Undefined
                           THEN ProvidedMessage(fetchOutcome).v
                           ELSE DefaultErrorMessage(fetchOutcome)
                ELSE apiResult.error.status = 0

\* C29 witness: a successful response whose body does not parse has been
\* turned into an ApiError with status 0
C29_Witness ==
    /\ Settled
    /\ fetchOutcome.kind = "response"
    /\ fetchOutcome.status = 200
    /\ fetchOutcome.body.parse = "throws"
    /\ fetchOutcome.body.error.type = "SyntaxError"
    /\ apiResult.kind = "rejected"
    /\ apiResult.error.type = "ApiError"
    /\ apiResult.error.status = 0

(***************************************************************************)
(* ChemicalInfo: the card that shows the name of the substance of its cas  *)
(* prop.  A name is tagged with the substance it was resolved for and with *)
(* where it came from; cas numbers are in their normalized form, in which  *)
(* compareCas is equality.                                                 *)
(***************************************************************************)
InfoCasNumbers == {"A", "B"}
Origins == {"info", "prop", "list"}

NameOf(cas, origin) == [of |-> cas, from |-> origin]

\* the body of the /cas/{cas} response, with or without a chemical_name
CasInfoResponse(cas, named) ==
    [cas_number |-> cas,
     chemical_name |-> IF named THEN NameOf(cas, "info") ELSE Undefined]

\* the items a loaded cas list can hold
CasListItems ==
    {[cas_number |-> cas, chemical_name |-> NameOf(cas, "list")] :
        cas \in InfoCasNumbers}

IdleCasInfo == [data |-> Undefined, error |-> FALSE, fetching |-> FALSE]

\* useQuery(["cas-info", normalizedCas]) starts a retrieval for a cas
\* without data
StartCasInfoIfNeeded(cas, qs) ==
    IF qs[cas].data = Undefined /\ ~qs[cas].fetching
    THEN [qs EXCEPT ![cas] = [data |-> Undefined, error |-> FALSE,
                              fetching |-> TRUE]]
    ELSE qs

\* casInfo?.chemical_name
InfoName(casInfo) ==
    IF casInfo = Undefined THEN Undefined ELSE casInfo.chemical_name

\* what the name effect leaves in chemicalName
\* (priority: casInfo > propChemicalName > casList)
NameEffectResult(cas, propName, list, casInfo, current) ==
    IF InfoName(casInfo) # Undefined THEN InfoName(casInfo)
    ELSE IF propName # Undefined THEN propName
    ELSE IF \E item \in list : item.cas_number = cas
         THEN (CHOOSE item \in list : item.cas_number = cas).chemical_name
         ELSE current

casInfo == casInfoQueries[normalizedCas].data
isCasInfoLoading == casInfo = Undefined /\ casInfoQueries[normalizedCas].fetching
isInfoLoading == casListQuery.isLoading \/ isCasInfoLoading

\* casInfo?.chemical_name || chemicalName
displayChemicalName ==
    IF InfoName(casInfo) # Undefined THEN InfoName(casInfo) ELSE chemicalName

\* what the card shows
InfoView ==
    CASE isInfoLoading /\ casInfo = Undefined -> "skeleton"
      [] casInfoQueries[normalizedCas].error -> "error"
      [] isInfoLoading /\ displayChemicalName = Undefined -> "name skeleton"
      [] displayChemicalName # Undefined -> "name"
      [] OTHER -> "Name not available"

InfoInit ==
    /\ normalizedCas \in InfoCasNumbers
    /\ propChemicalName \in {Undefined, NameOf(normalizedCas, "prop")}
    /\ chemicalName = propChemicalName
    /\ casInfoQueries =
          StartCasInfoIfNeeded(normalizedCas,
                               [cas \in InfoCasNumbers |-> IdleCasInfo])
    /\ casListQuery = [isLoading |-> TRUE, casList |-> {}]
    /\ nameEffectPending = TRUE
    /\ SelectIdle /\ ApiIdle
    /\ component = "none"
    /\ source = Undefined
    /\ queryStatus = "idle"
    /\ plotData = Undefined
    /\ windowPlotly = FALSE
    /\ plotlyLoaded = FALSE
    /\ effectPending = FALSE
    /\ chart = NoChart
    /\ rendererCalls = <<>>
    /\ resizeListeners = 0
    /\ effectCleanup = FALSE
    /\ consoleErrors = 0
    /\ ec10eqData = NoResult
    /\ colorBy = "trophic_group"
    /\ plotResult = NoResult
    /\ payload = Undefined
    /\ accepted = "unknown"
    /\ mounted = TRUE
    /\ selectedCas = <<>>
    /\ queries = <<>>
    /\ fetchCount = 0
    /\ detachedHandles = 0
    /\ effectCalls = <<>>

InfoFrame ==
    /\ UNCHANGED renderVars
    /\ UNCHANGED builderVars
    /\ UNCHANGED classifyVars
    /\ UNCHANGED lifeVars
    /\ UNCHANGED selectVars
    /\ UNCHANGED apiVars

\* the parent passes another cas, with or without its chemical_name
InfoPropsChange ==
    /\ ~nameEffectPending
    /\ \E cas \in InfoCasNumbers :
          \E name \in {Undefined, NameOf(cas, "prop")} :
             /\ <<cas, name>> # <<normalizedCas, propChemicalName>>
             /\ normalizedCas' = cas
             /\ propChemicalName' = name
             /\ casInfoQueries' = StartCasInfoIfNeeded(cas, casInfoQueries)
    /\ nameEffectPending' = TRUE
    /\ UNCHANGED <<chemicalName, casListQuery>>
    /\ InfoFrame

\* a cas-info retrieval resolves
CasInfoSucceeds ==
    /\ ~nameEffectPending
    /\ \E cas \in InfoCasNumbers, named \in BOOLEAN :
          /\ casInfoQueries[cas].fetching
          /\ casInfoQueries' =
                [casInfoQueries EXCEPT ![cas] =
                    [data |-> CasInfoResponse(cas, named),
                     error |-> FALSE, fetching |-> FALSE]]
          /\ nameEffectPending' = (cas = normalizedCas)
    /\ UNCHANGED <<normalizedCas, propChemicalName, chemicalName,
                   casListQuery>>
    /\ InfoFrame

\* a cas-info retrieval rejects
CasInfoFails ==
    /\ ~nameEffectPending
    /\ \E cas \in InfoCasNumbers :
          /\ casInfoQueries[cas].fetching
          /\ casInfoQueries' =
                [casInfoQueries EXCEPT ![cas].error = TRUE,
                                       ![cas].fetching = FALSE]
    /\ UNCHANGED <<normalizedCas, propChemicalName, chemicalName,
                   casListQuery, nameEffectPending>>
    /\ InfoFrame

\* useCasList has the list
CasListLoaded ==
    /\ ~nameEffectPending
    /\ casListQuery.isLoading
    /\ \E items \in SUBSET CasListItems :
          casListQuery' = [isLoading |-> FALSE, casList |-> items]
    /\ nameEffectPending' = TRUE
    /\ UNCHANGED <<normalizedCas, propChemicalName, chemicalName,
                   casInfoQueries>>
    /\ InfoFrame

\* the effect with deps [normalizedCas, propChemicalName, casList, casInfo]
NameEffect ==
    /\ nameEffectPending
    /\ nameEffectPending' = FALSE
    /\ chemicalName' = NameEffectResult(normalizedCas, propChemicalName,
                                        casListQuery.casList, casInfo,
                                        chemicalName)
    /\ UNCHANGED <<normalizedCas, propChemicalName, casInfoQueries,
                   casListQuery>>
    /\ InfoFrame

InfoNext ==
    \/ InfoPropsChange
    \/ CasInfoSucceeds
    \/ CasInfoFails
    \/ CasListLoaded
    \/ NameEffect

InfoSpec == InfoInit /\ [][InfoNext]_vars

\* C28: once the effects of a commit have run, a chemical name that the
\* card displays was resolved for the currently selected CAS (from its
\* info response, the name prop or its CAS-list entry); a name resolved for
\* a previously selected CAS is never displayed for the current one.
C28_NameOfCurrentCas ==
    (InfoView = "name" /\ ~nameEffectPending) =>
        /\ displayChemicalName.of = normalizedCas
        /\ displayChemicalName.from \in Origins

====
